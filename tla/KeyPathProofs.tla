---------------------------- MODULE KeyPathProofs ----------------------------
(***************************************************************************)
(* Proofs about what a key goes through (MCKeyPath): the keycodes of the   *)
(* keymap, for any number of keycodes, names, statements and files; the    *)
(* keystrokes, for any number of clients, layouts and strokes; and that    *)
(* the three machines together keep what each keeps alone.                 *)
(***************************************************************************)
EXTENDS MCKeyPath, XkbStateProofs, SequenceTheorems

-----------------------------------------------------------------------------
(* XkbKeycodes.  The lemmas say what AddKeyName does to one KeyNamesInfo;  *)
(* every step changes one frame or the one below it.                       *)

Sound(info) ==
  /\ \A kc \in Keycodes : info.keys[kc] # NoName => kc \in info.min .. info.max
  /\ \A kc, other \in Keycodes :
       info.keys[kc] = info.keys[other] /\ info.keys[kc] # NoName => kc = other

-----------------------------------------------------------------------------
(* AddKeyName *)

LEMMA WidenFacts ==
  ASSUME NEW info \in KeyNamesType, NEW kc \in Keycodes
  PROVE  /\ Widen(info, kc) \in KeyNamesType
         /\ Widen(info, kc).keys = info.keys
         /\ Widen(info, kc).min <= info.min /\ info.max <= Widen(info, kc).max
         /\ Widen(info, kc).min <= kc /\ kc <= Widen(info, kc).max
  <1>1. /\ MaxKeycode \in Nat
        /\ info.min \in 0 .. MaxKeycode + 1 /\ info.max \in 0 .. MaxKeycode
        /\ kc \in 0 .. MaxKeycode
    BY KeycodesAssumption DEF KeyNamesType, Keycodes, NoKeycode
  <1> DEFINE lo == IF kc < info.min THEN kc ELSE info.min
             hi == IF kc > info.max THEN kc ELSE info.max
  <1>2. /\ lo \in 0 .. NoKeycode /\ hi \in Keycodes
        /\ lo <= info.min /\ info.max <= hi /\ lo <= kc /\ kc <= hi
    BY <1>1 DEF Keycodes, NoKeycode
  <1> HIDE DEF lo, hi
  <1>3. Widen(info, kc) = [info EXCEPT !.min = lo, !.max = hi]
    BY DEF Widen, lo, hi
  <1>4. /\ [info EXCEPT !.min = lo, !.max = hi] \in KeyNamesType
        /\ [info EXCEPT !.min = lo, !.max = hi].keys = info.keys
        /\ [info EXCEPT !.min = lo, !.max = hi].min = lo
        /\ [info EXCEPT !.min = lo, !.max = hi].max = hi
    BY <1>2 DEF KeyNamesType
  <1> QED
    BY <1>2, <1>3, <1>4

\* The search returns a keycode of that name, or there is none between the two.
LEMMA FindFacts ==
  ASSUME NEW info \in KeyNamesType, NEW keys \in [Keycodes -> Names \cup {NoName}],
         NEW name \in Names
  PROVE  LET old_kc == FindKeyByName(info, keys, name) IN
         \/ /\ old_kc = NoKeycode
            /\ \A kc \in info.min .. info.max : keys[kc] # name
         \/ old_kc \in Keycodes /\ keys[old_kc] = name
  <1> DEFINE found == {kc \in info.min .. info.max : keys[kc] = name}
  <1> found \subseteq Keycodes
    BY KeycodesAssumption DEF KeyNamesType, Keycodes, NoKeycode
  <1>1. CASE found = {}
    BY <1>1 DEF FindKeyByName
  <1>2. CASE found # {}
    <2>1. \E kc \in found : \A other \in found : kc <= other
      <3> DEFINE less == OpToRel(<, Nat)
      <3>1. found \subseteq Nat
        BY KeycodesAssumption DEF Keycodes
      <3>2. PICK kc \in found : \A other \in found : <<other, kc>> \notin less
        BY <1>2, <3>1, NatLessThanWellFounded, WFMin
      <3>3. \A other \in found : ~(other < kc)
        BY <3>1, <3>2 DEF OpToRel
      <3> QED
        BY <3>1, <3>3
    <2> QED  BY <1>2, <2>1 DEF FindKeyByName
  <1> QED  BY <1>1, <1>2

LEMMA AddKeyNameType ==
  ASSUME NEW info \in KeyNamesType, NEW kc \in Keycodes, NEW name \in Names, NEW merge
  PROVE  AddKeyName(info, kc, name, merge) \in KeyNamesType
  <1> DEFINE wide == Widen(info, kc)
  <1>1. wide \in KeyNamesType
    BY WidenFacts
  <1> HIDE DEF wide
  <1>2. \A keys \in [Keycodes -> Names \cup {NoName}] : [wide EXCEPT !.keys = keys] \in KeyNamesType
    BY <1>1 DEF KeyNamesType
  <1>3. \A c \in Keycodes, n \in Names \cup {NoName} :
          \A keys \in [Keycodes -> Names \cup {NoName}] :
            [keys EXCEPT ![c] = n] \in [Keycodes -> Names \cup {NoName}]
    OBVIOUS
  <1> DEFINE cleared == [wide.keys EXCEPT ![kc] = NoName]
             old_kc  == FindKeyByName(wide, cleared, name)
  <1>4. cleared \in [Keycodes -> Names \cup {NoName}]
    BY <1>1 DEF KeyNamesType
  <1>5. old_kc = NoKeycode \/ old_kc \in Keycodes
    BY <1>1, <1>4, FindFacts
  <1> HIDE DEF cleared, old_kc
  <1>6. [cleared EXCEPT ![kc] = name] \in [Keycodes -> Names \cup {NoName}]
    BY <1>4
  <1>7. ASSUME old_kc \in Keycodes
        PROVE  [cleared EXCEPT ![old_kc] = NoName, ![kc] = name]
                 \in [Keycodes -> Names \cup {NoName}]
    BY <1>4, <1>7
  <1> QED
    BY <1>1, <1>2, <1>4, <1>5, <1>6, <1>7 DEF AddKeyName, wide, cleared, old_kc

LEMMA AddKeyNameSound ==
  ASSUME NEW info \in KeyNamesType, NEW kc \in Keycodes, NEW name \in Names, NEW merge,
         Sound(info)
  PROVE  Sound(AddKeyName(info, kc, name, merge))
  <1> DEFINE wide    == Widen(info, kc)
             cleared == [wide.keys EXCEPT ![kc] = NoName]
             old_kc  == FindKeyByName(wide, cleared, name)
             keys    == AddKeyName(info, kc, name, merge).keys
  <1>1. /\ wide \in KeyNamesType /\ wide.keys = info.keys
        /\ wide.min <= info.min /\ info.max <= wide.max
        /\ wide.min <= kc /\ kc <= wide.max
    BY WidenFacts
  <1>2. Sound(wide)
    BY <1>1 DEF Sound, KeyNamesType, Keycodes, NoKeycode
  <1>3. cleared \in [Keycodes -> Names \cup {NoName}]
    BY <1>1 DEF KeyNamesType
  <1>4. \/ /\ old_kc = NoKeycode
           /\ \A c \in wide.min .. wide.max : cleared[c] # name
        \/ old_kc \in Keycodes /\ cleared[old_kc] = name
    BY <1>1, <1>3, FindFacts
  <1> HIDE DEF wide
  <1>5. /\ \A c \in Keycodes : c # kc => cleared[c] = wide.keys[c]
        /\ cleared[kc] = NoName
    BY <1>1 DEF KeyNamesType
  <1>6. ASSUME NEW ks \in [Keycodes -> Names \cup {NoName}],
               \A c \in Keycodes : ks[c] # NoName => ks[c] = wide.keys[c] \/ (c = kc /\ ks[c] = name),
               ks[kc] = name => \A c \in Keycodes : c # kc => ks[c] # name
        PROVE  Sound([wide EXCEPT !.keys = ks])
    <2>1. /\ [wide EXCEPT !.keys = ks].keys = ks
          /\ [wide EXCEPT !.keys = ks].min = wide.min /\ [wide EXCEPT !.keys = ks].max = wide.max
      BY <1>1 DEF KeyNamesType
    <2>2. ASSUME NEW c \in Keycodes, ks[c] # NoName
          PROVE  c \in wide.min .. wide.max
      BY <2>2, <1>1, <1>2, <1>6 DEF Sound, KeyNamesType, Keycodes, NoKeycode
    <2>3. ASSUME NEW c \in Keycodes, NEW d \in Keycodes, ks[c] = ks[d], ks[c] # NoName
          PROVE  c = d
      BY <2>3, <1>2, <1>6 DEF Sound
    <2> QED
      BY <2>1, <2>2, <2>3 DEF Sound
  <1> HIDE DEF cleared, old_kc
  <1>7. CASE wide.keys[kc] = name \/ (wide.keys[kc] # NoName /\ merge = "augment")
    BY <1>7, <1>2 DEF AddKeyName, wide
  <1>8. CASE ~(wide.keys[kc] = name \/ (wide.keys[kc] # NoName /\ merge = "augment"))
    <2>1. CASE old_kc = NoKeycode
      <3> DEFINE ks == [cleared EXCEPT ![kc] = name]
      <3>1. \A c \in Keycodes : c # kc => ks[c] # name
        <4> SUFFICES ASSUME NEW c \in Keycodes, c # kc, cleared[c] = name
                     PROVE  FALSE
          BY <1>3
        <4>1. c \in wide.min .. wide.max
          BY <1>2, <1>5, KeycodesAssumption DEF Sound
        <4> QED
          BY <4>1, <1>4, <2>1, KeycodesAssumption DEF NoKeycode, Keycodes
      <3>2. ks \in [Keycodes -> Names \cup {NoName}]
        BY <1>3
      <3>3. Sound([wide EXCEPT !.keys = ks])
        BY <3>1, <3>2, <1>3, <1>5, <1>6
      <3> QED
        BY <3>3, <1>8, <2>1 DEF AddKeyName, wide, cleared, old_kc
    <2>2. CASE old_kc # NoKeycode /\ merge = "override"
      <3> DEFINE ks == [cleared EXCEPT ![old_kc] = NoName, ![kc] = name]
      <3>1. old_kc \in Keycodes /\ cleared[old_kc] = name /\ old_kc # kc
        BY <1>4, <1>5, <2>2, KeycodesAssumption
      <3>2. ks \in [Keycodes -> Names \cup {NoName}]
        BY <1>3, <3>1
      <3>3. \A c \in Keycodes : ks[c] = IF c = kc THEN name ELSE IF c = old_kc THEN NoName
                                        ELSE wide.keys[c]
        BY <1>3, <1>5, <3>1
      <3>4. wide.keys[old_kc] = name
        BY <3>1, <1>5
      <3>5. \A c \in Keycodes : c # kc => ks[c] # name
        <4> HIDE DEF ks
        <4>1. name # NoName
          BY KeycodesAssumption
        <4>2. \A c \in Keycodes : wide.keys[c] = name => c = old_kc
          BY <3>1, <3>4, <4>1, <1>2 DEF Sound
        <4> QED  BY <3>1, <3>3, <4>1, <4>2
      <3>6. Sound([wide EXCEPT !.keys = ks])
        <4> HIDE DEF ks
        <4> QED  BY <3>2, <3>3, <3>5, <1>6
      <3> QED
        BY <3>6, <1>8, <2>2 DEF AddKeyName, wide, cleared, old_kc
    <2>3. CASE old_kc # NoKeycode /\ merge # "override"
      <3>1. Sound([wide EXCEPT !.keys = cleared])
        BY <1>3, <1>5, <1>6, KeycodesAssumption
      <3> QED
        BY <3>1, <1>8, <2>3 DEF AddKeyName, wide, cleared, old_kc
    <2> QED
      BY <2>1, <2>2, <2>3
  <1> QED
    BY <1>7, <1>8

\* To augment is to leave every name where it is.
LEMMA AddKeyNameAugments ==
  ASSUME NEW info \in KeyNamesType, NEW kc \in Keycodes, NEW name \in Names,
         NEW other \in Keycodes, info.keys[other] # NoName
  PROVE  AddKeyName(info, kc, name, "augment").keys[other] = info.keys[other]
  <1> DEFINE wide    == Widen(info, kc)
             cleared == [wide.keys EXCEPT ![kc] = NoName]
  <1>1. wide \in KeyNamesType /\ wide.keys = info.keys
    BY WidenFacts
  <1> HIDE DEF wide
  <1>2. \A keys : [wide EXCEPT !.keys = keys].keys = keys
    BY <1>1 DEF KeyNamesType
  <1>3. info.keys \in [Keycodes -> Names \cup {NoName}]
    BY DEF KeyNamesType
  <1>4. CASE info.keys[kc] = NoName
    BY <1>1, <1>2, <1>3, <1>4 DEF AddKeyName, wide
  <1>5. CASE info.keys[kc] # NoName
    BY <1>1, <1>5 DEF AddKeyName, wide
  <1> QED
    BY <1>4, <1>5

\* To override is to have the name, and to take it from no key but the one that had it.
LEMMA AddKeyNameOverrides ==
  ASSUME NEW info \in KeyNamesType, NEW kc \in Keycodes, NEW name \in Names
  PROVE  LET keys == AddKeyName(info, kc, name, "override").keys IN
         /\ keys[kc] = name
         /\ \A other \in Keycodes :
              other # kc /\ info.keys[other] # name => keys[other] = info.keys[other]
  <1> DEFINE wide    == Widen(info, kc)
             cleared == [wide.keys EXCEPT ![kc] = NoName]
             old_kc  == FindKeyByName(wide, cleared, name)
  <1>1. wide \in KeyNamesType /\ wide.keys = info.keys
    BY WidenFacts
  <1>2. info.keys \in [Keycodes -> Names \cup {NoName}]
    BY DEF KeyNamesType
  <1>3. cleared \in [Keycodes -> Names \cup {NoName}]
    BY <1>1, <1>2
  <1>4. old_kc = NoKeycode \/ (old_kc \in Keycodes /\ cleared[old_kc] = name)
    BY <1>1, <1>3, FindFacts
  <1> HIDE DEF wide, old_kc
  <1>5. \A keys : [wide EXCEPT !.keys = keys].keys = keys
    BY <1>1 DEF KeyNamesType
  <1>6. CASE wide.keys[kc] = name
    BY <1>1, <1>6 DEF AddKeyName, wide
  <1>7. CASE wide.keys[kc] # name /\ old_kc = NoKeycode
    BY <1>1, <1>2, <1>5, <1>7 DEF AddKeyName, wide, old_kc
  <1>8. CASE wide.keys[kc] # name /\ old_kc # NoKeycode
    <2> DEFINE keys == [cleared EXCEPT ![old_kc] = NoName, ![kc] = name]
    <2>1. AddKeyName(info, kc, name, "override").keys = keys
      BY <1>1, <1>5, <1>8 DEF AddKeyName, wide, old_kc
    <2>2. old_kc \in Keycodes /\ old_kc # kc /\ info.keys[old_kc] = name
      BY <1>1, <1>2, <1>4, <1>8, KeycodesAssumption
    <2> QED
      BY <1>1, <1>2, <2>1, <2>2
  <1> QED
    BY <1>6, <1>7, <1>8

-----------------------------------------------------------------------------
(* The other names, and the frames *)

KeyNames == {info \in KeyNamesType : Sound(info)}

FrameType == [kind : {"file", "include"}, merge : Merges, names : KeyNamesType]

\* A file is at the bottom, and above it the statement that includes the next.
WellFormed(s) ==
  /\ s \in Seq(FrameType) /\ Len(s) >= 1
  /\ \A f \in 1 .. Len(s) : Sound(s[f].names)
  /\ s[1].kind = "file" /\ (Len(s) >= 2 => s[2].kind = "include")

LEMMA AddAliasType ==
  ASSUME NEW aliases \in [Names -> [real : Names \cup {NoName}, merge : Merges]],
         NEW alias \in Names, NEW real \in Names \cup {NoName}, NEW merge \in Merges
  PROVE  AddAlias(aliases, alias, real, merge)
           \in [Names -> [real : Names \cup {NoName}, merge : Merges]]
  <1>1. [real |-> IF aliases[alias] # NoAlias /\ merge = "augment" THEN aliases[alias].real
                  ELSE real, merge |-> merge] \in [real : Names \cup {NoName}, merge : Merges]
    OBVIOUS
  <1> QED  BY <1>1 DEF AddAlias

LEMMA AddLedNameType ==
  ASSUME NEW T, NEW leds \in [Leds -> T], NEW led \in T, NEW idx \in Leds, NEW merge
  PROVE  AddLedName(leds, led, idx, merge) \in [Leds -> T]
  BY DEF AddLedName

LEMMA NoNamesFacts == NoNames \in KeyNames
  <1>1. NoNames \in KeyNamesType
    BY KeycodesAssumption DEF NoNames, KeyNamesType, Keycodes, NoKeycode, NoAlias, NoLed, Merges
  <1>2. Sound(NoNames)
    BY DEF Sound, NoNames
  <1> QED  BY <1>1, <1>2 DEF KeyNames

\* The aliases, the indicators and the errors do not touch the keys.
LEMMA OtherFields ==
  ASSUME NEW info \in KeyNames
  PROVE  /\ \A n \in Nat : Failed(info, n) \in KeyNames /\ Failed(info, n).keys = info.keys
         /\ \A aliases \in [Names -> [real : Names \cup {NoName}, merge : Merges]] :
              LET new == [info EXCEPT !.aliases = aliases] IN
              new \in KeyNames /\ new.keys = info.keys
         /\ \A leds \in [Leds -> [name : Names \cup {NoName}, merge : Merges]] :
              LET new == [info EXCEPT !.leds = leds] IN
              new \in KeyNames /\ new.keys = info.keys
  <1> USE DEF KeyNames, KeyNamesType
  <1>1. ASSUME NEW n \in Nat
        PROVE  Failed(info, n) \in KeyNames /\ Failed(info, n).keys = info.keys
    <2>1. AtMost11(info.errors + n) \in 0 .. 11
      BY DEF AtMost11
    <2> QED  BY <2>1 DEF Failed, Sound
  <1>2. ASSUME NEW aliases \in [Names -> [real : Names \cup {NoName}, merge : Merges]]
        PROVE  LET new == [info EXCEPT !.aliases = aliases] IN
               new \in KeyNames /\ new.keys = info.keys
    BY DEF Sound
  <1>3. ASSUME NEW leds \in [Leds -> [name : Names \cup {NoName}, merge : Merges]]
        PROVE  LET new == [info EXCEPT !.leds = leds] IN
               new \in KeyNames /\ new.keys = info.keys
    BY DEF Sound
  <1> QED  BY <1>1, <1>2, <1>3

LEMMA AddKeyNameFacts ==
  ASSUME NEW info \in KeyNames, NEW kc \in Keycodes, NEW name \in Names, NEW merge
  PROVE  AddKeyName(info, kc, name, merge) \in KeyNames
  BY AddKeyNameType, AddKeyNameSound DEF KeyNames

LEMMA Change ==
  ASSUME NEW s, WellFormed(s), NEW d \in 1 .. Len(s), NEW info \in KeyNames,
         NEW new, new = [s EXCEPT ![d].names = info]
  PROVE  /\ WellFormed(new) /\ Len(new) = Len(s)
         /\ new[d].names = info /\ new[d].merge = s[d].merge
         /\ \A f \in 1 .. Len(s) : f # d => new[f] = s[f]
  <1>1. s \in Seq(FrameType) /\ s[d] \in FrameType
    BY DEF WellFormed
  <1>2. [s[d] EXCEPT !.names = info] \in FrameType
    BY <1>1 DEF FrameType, KeyNames
  <1>3. new = [s EXCEPT ![d] = [s[d] EXCEPT !.names = info]]
    OBVIOUS
  <1>4. /\ new \in Seq(FrameType) /\ Len(new) = Len(s)
        /\ new[d] = [s[d] EXCEPT !.names = info]
        /\ \A f \in 1 .. Len(s) : f # d => new[f] = s[f]
    BY <1>1, <1>2, <1>3
  <1>5. new[d].names = info /\ new[d].merge = s[d].merge /\ new[d].kind = s[d].kind
    BY <1>1, <1>4 DEF FrameType
  <1>6. \A f \in 1 .. Len(s) : new[f].kind = s[f].kind
    BY <1>4, <1>5
  <1>7. \A f \in 1 .. Len(s) : Sound(new[f].names)
    <2> TAKE f \in 1 .. Len(s)
    <2>1. CASE f = d
      BY <2>1, <1>5 DEF KeyNames
    <2>2. CASE f # d
      BY <2>2, <1>4 DEF WellFormed
    <2> QED  BY <2>1, <2>2
  <1>8. WellFormed(new)
    BY <1>1, <1>4, <1>6, <1>7 DEF WellFormed
  <1> QED  BY <1>4, <1>5, <1>8

LEMMA Pop ==
  ASSUME NEW s, WellFormed(s), NEW n \in 1 .. Len(s)
  PROVE  /\ WellFormed(SubSeq(s, 1, n)) /\ Len(SubSeq(s, 1, n)) = n
         /\ \A f \in 1 .. n : SubSeq(s, 1, n)[f] = s[f]
  <1>1. s \in Seq(FrameType)
    BY DEF WellFormed
  <1>2. /\ SubSeq(s, 1, n) \in Seq(FrameType) /\ Len(SubSeq(s, 1, n)) = n
        /\ \A f \in 1 .. n : SubSeq(s, 1, n)[f] = s[f]
    BY <1>1
  <1> QED  BY <1>2 DEF WellFormed

LEMMA Push ==
  ASSUME NEW s, WellFormed(s), NEW kind \in {"file", "include"}, NEW merge \in Merges,
         kind = "file" => Len(s) >= 2, kind = "include" => Len(s) # 0
  PROVE  WellFormed(Append(s, Frame(kind, merge))) /\ Len(Append(s, Frame(kind, merge))) = Len(s) + 1
  <1>1. s \in Seq(FrameType) /\ Frame(kind, merge) \in FrameType
    BY NoNamesFacts DEF WellFormed, Frame, FrameType, KeyNames
  <1> DEFINE new == Append(s, Frame(kind, merge))
  <1>2. /\ new \in Seq(FrameType) /\ Len(new) = Len(s) + 1
        /\ \A f \in 1 .. Len(s) : new[f] = s[f]
        /\ new[Len(s) + 1] = Frame(kind, merge)
    BY <1>1
  <1>3. Sound(Frame(kind, merge).names) /\ Frame(kind, merge).kind = kind
    BY NoNamesFacts DEF Frame, KeyNames
  <1> HIDE DEF new
  <1>4. \A f \in 1 .. Len(new) : f \in 1 .. Len(s) \/ f = Len(s) + 1
    BY <1>1, <1>2
  <1> QED  BY <1>2, <1>3, <1>4 DEF WellFormed, new

-----------------------------------------------------------------------------
(* The invariant *)

Counters ==
  /\ merging \in [what : {"nothing", "keys", "leds"}, next : Nat]
  /\ merging.what # "nothing" => Depth > 1
  /\ statements \in 0 .. MaxStatements

KInv == WellFormed(frames) /\ Counters

LEMMA KInvImplies == KInv => KeycodesTypeOK /\ KeyNamesSound
  <1> SUFFICES ASSUME KInv PROVE KeycodesTypeOK /\ KeyNamesSound
    OBVIOUS
  <1>1. frames \in Seq(FrameType) /\ DOMAIN frames = 1 .. Len(frames)
    BY DEF KInv, WellFormed
  <1>2. KeyNamesSound
    BY <1>1 DEF KInv, WellFormed, KeyNamesSound, Sound
  <1>3. KeycodesTypeOK
    BY <1>1 DEF KInv, WellFormed, Counters, KeycodesTypeOK, FrameType, Depth
  <1> QED  BY <1>2, <1>3

LEMMA KInit == KeycodesInit => KInv
  <1> SUFFICES ASSUME KeycodesInit PROVE KInv
    OBVIOUS
  <1>1. Frame("file", "override") \in FrameType /\ Sound(NoNames)
    BY NoNamesFacts DEF Frame, FrameType, KeyNames, Merges
  <1>2. frames = <<Frame("file", "override")>>
    BY DEF KeycodesInit
  <1>3. frames \in Seq(FrameType) /\ Len(frames) = 1 /\ frames[1] = Frame("file", "override")
    BY <1>1, <1>2
  <1>4. WellFormed(frames)
    BY <1>1, <1>3 DEF WellFormed, Frame
  <1>5. Counters
    BY KeycodesAssumption DEF KeycodesInit, Counters
  <1> QED  BY <1>4, <1>5 DEF KInv

\* What a frame is, and what it is to pop the innermost one into the one below.
LEMMA FrameFacts ==
  ASSUME KInv
  PROVE  /\ Depth \in Nat \ {0}
         /\ Top.names \in KeyNames /\ Top.merge \in Merges
         /\ Depth > 1 => Below.names \in KeyNames
  <1>1. frames \in Seq(FrameType) /\ Depth \in Nat \ {0}
    BY DEF KInv, WellFormed, Depth
  <1>2. \A f \in 1 .. Depth : frames[f] \in FrameType /\ Sound(frames[f].names)
    BY <1>1 DEF KInv, WellFormed, Depth
  <1>3. Depth \in 1 .. Depth /\ (Depth > 1 => Depth - 1 \in 1 .. Depth)
    BY <1>1
  <1>4. Top \in FrameType /\ Sound(Top.names)
    BY <1>2, <1>3 DEF Top
  <1>5. Depth > 1 => Below \in FrameType /\ Sound(Below.names)
    BY <1>2, <1>3 DEF Below
  <1> QED  BY <1>1, <1>4, <1>5 DEF FrameType, KeyNames

LEMMA PopInto ==
  ASSUME KInv, NEW n \in 1 .. Depth, NEW info \in KeyNames
  PROVE  LET new == [SubSeq(frames, 1, n) EXCEPT ![n].names = info] IN
         WellFormed(new) /\ Len(new) = n
  <1>1. /\ WellFormed(SubSeq(frames, 1, n)) /\ Len(SubSeq(frames, 1, n)) = n
    BY Pop DEF KInv, Depth
  <1>2. n \in 1 .. Len(SubSeq(frames, 1, n))
    BY <1>1, FrameFacts
  <1> DEFINE s   == SubSeq(frames, 1, n)
             new == [s EXCEPT ![n].names = info]
  <1> HIDE DEF s
  <1>3. WellFormed(s) /\ n \in 1 .. Len(s)
    BY <1>1, <1>2 DEF s
  <1>4. WellFormed(new) /\ Len(new) = Len(s)
    BY <1>3, Change
  <1> QED  BY <1>1, <1>4 DEF s

LEMMA KNext == KInv /\ [KeycodesNext]_keycodesVars => KInv'
<1> SUFFICES ASSUME KInv, [KeycodesNext]_keycodesVars
             PROVE  WellFormed(frames') /\ Counters'
  BY DEF KInv
<1>0. /\ Depth \in Nat \ {0} /\ Depth = Len(frames)
      /\ Top.names \in KeyNames /\ Top.merge \in Merges
      /\ Depth > 1 => Below.names \in KeyNames
      /\ WellFormed(frames) /\ Counters
  BY FrameFacts DEF KInv, Depth
\* A statement changes the names of the innermost frame.
<1>1. ASSUME NEW info \in KeyNames, Statement, TopBecomes(info), UNCHANGED merging
      PROVE  WellFormed(frames') /\ Counters'
  <2>0. Depth \in 1 .. Len(frames)
    BY <1>0
  <2>1. WellFormed(frames') /\ Len(frames') = Len(frames)
    <3>1. frames' = [frames EXCEPT ![Depth].names = info]
      BY <1>1 DEF TopBecomes
    <3>2. WellFormed(frames)
      BY <1>0
    <3> DEFINE new == [frames EXCEPT ![Depth].names = info]
    <3>3. WellFormed(new) /\ Len(new) = Len(frames)
      BY <2>0, <3>2, Change
    <3> QED  BY <3>1, <3>3
  <2>2. statements' \in 0 .. MaxStatements
    BY <1>0, <1>1, KeycodesAssumption DEF Statement, Counters
  <2> QED
    BY <1>0, <1>1, <2>1, <2>2 DEF Counters, Depth
<1>2. CASE ReadFile
  <2>1. ASSUME NEW kc \in Keycodes, NEW n \in Names, NEW m \in Merges, KeycodeDef(kc, n, m)
        PROVE  WellFormed(frames') /\ Counters'
    BY <1>0, <1>1, <2>1, AddKeyNameFacts DEF KeycodeDef
  <2>2. ASSUME NEW n \in Names, NEW real \in Names, AliasDef(n, real)
        PROVE  WellFormed(frames') /\ Counters'
    <3>1. AddAlias(Top.names.aliases, n, real, "override")
            \in [Names -> [real : Names \cup {NoName}, merge : Merges]]
      BY <1>0, AddAliasType DEF KeyNames, KeyNamesType, Merges
    <3>2. [Top.names EXCEPT !.aliases = AddAlias(Top.names.aliases, n, real, "override")] \in KeyNames
      BY <1>0, <3>1, OtherFields
    <3> QED  BY <1>1, <2>2, <3>2 DEF AliasDef
  <2>3. ASSUME NEW l \in Leds, NEW n \in Names, LedNameDef(l, n)
        PROVE  WellFormed(frames') /\ Counters'
    <3> DEFINE led == [name |-> n, merge |-> "override"]
    <3>1. AddLedName(Top.names.leds, led, l, "override")
            \in [Leds -> [name : Names \cup {NoName}, merge : Merges]]
      <4>1. led \in [name : Names \cup {NoName}, merge : Merges]
        BY DEF Merges
      <4> QED  BY <1>0, <4>1, AddLedNameType DEF KeyNames, KeyNamesType
    <3>2. [Top.names EXCEPT !.leds = AddLedName(Top.names.leds, led, l, "override")] \in KeyNames
      BY <1>0, <3>1, OtherFields
    <3> QED  BY <1>1, <2>3, <3>2 DEF LedNameDef
  <2>4. ASSUME NEW n \in {1, 2}, BadStatement(n)
        PROVE  WellFormed(frames') /\ Counters'
    BY <1>0, <1>1, <2>4, OtherFields DEF BadStatement
  <2>5. ASSUME NEW m \in Merges, Include(m)
        PROVE  WellFormed(frames') /\ Counters'
    <3> DEFINE one == Append(frames, Frame("include", m))
               two == Append(one, Frame("file", m))
    <3>1. WellFormed(one) /\ Len(one) = Depth + 1
      BY <1>0, Push
    <3>2. WellFormed(two) /\ Len(two) = Depth + 2
      <4> HIDE DEF one
      <4>1. Len(one) >= 2 /\ Len(one) # 0
        BY <1>0, <3>1
      <4>2. WellFormed(two) /\ Len(two) = Len(one) + 1
        BY <3>1, <4>1, Push
      <4> QED  BY <1>0, <3>1, <4>2
    <3>3. frames' = two
      BY <1>0, <2>5, NoNamesFacts DEF Include, WellFormed
    <3>4. statements' \in 0 .. MaxStatements
      BY <1>0, <2>5, KeycodesAssumption DEF Include, Statement, Counters
    <3>5. UNCHANGED merging /\ merging.what = "nothing"
      BY <2>5 DEF Include, Statement, Idle
    <3> HIDE DEF two
    <3> QED  BY <1>0, <3>2, <3>3, <3>4, <3>5 DEF Counters, Depth
  <2> QED
    BY <1>2, <2>1, <2>2, <2>3, <2>4, <2>5 DEF ReadFile
<1>3. ASSUME NEW m \in {"override", "augment"}, NextFile(m)
      PROVE  WellFormed(frames') /\ Counters'
  <2>1. Depth >= 2
    BY <1>0, <1>3 DEF NextFile, Top, WellFormed
  <2>2. WellFormed(frames') /\ Len(frames') = Depth + 1
    BY <1>0, <1>3, <2>1, Push DEF NextFile, Merges
  <2>3. statements' \in 0 .. MaxStatements
    BY <1>0, <1>3, KeycodesAssumption DEF NextFile, Counters
  <2> QED  BY <1>0, <1>3, <2>2, <2>3 DEF NextFile, Counters, Depth
<1>4. CASE FileMissing
  <2>1. Depth >= 3
    BY <1>0, <1>4 DEF FileMissing, Top, WellFormed
  <2>2. Depth - 2 \in 1 .. Depth
    BY <1>0, <2>1
  <2>3. frames[Depth - 2].names \in KeyNames
    <3>1. frames[Depth - 2] \in FrameType /\ Sound(frames[Depth - 2].names)
      BY <1>0, <2>2 DEF WellFormed
    <3> QED  BY <3>1 DEF FrameType, KeyNames
  <2>4. SubSeq(frames, 1, Depth - 2)[Depth - 2] = frames[Depth - 2]
    BY <1>0, <2>2, Pop
  <2>5. Failed(frames[Depth - 2].names, 11) \in KeyNames
    BY <2>3, OtherFields
  <2>6. frames' = [SubSeq(frames, 1, Depth - 2) EXCEPT
                     ![Depth - 2].names = Failed(frames[Depth - 2].names, 11)]
    BY <1>4, <2>4 DEF FileMissing
  <2>7. WellFormed(frames') /\ Len(frames') = Depth - 2
    BY <2>2, <2>5, <2>6, PopInto
  <2> QED  BY <1>0, <1>4, <2>7 DEF FileMissing, Counters, Idle
<1>5. CASE StartMerge
  <2>1. Top.names.min \in Nat
    BY <1>0, KeycodesAssumption DEF KeyNames, KeyNamesType, NoKeycode
  <2> QED  BY <1>0, <1>5, <2>1 DEF StartMerge, Counters, Depth
\* The end of a merge.
<1>6. ASSUME NEW info \in KeyNames, Depth > 1, MergeDone(info)
      PROVE  WellFormed(frames') /\ Counters'
  <2>1. AfterMerge(info) \in KeyNames
    BY <1>6, OtherFields DEF AfterMerge
  <2>2. Depth - 1 \in 1 .. Depth
    BY <1>0, <1>6
  <2>3. WellFormed(frames')
    BY <1>6, <2>1, <2>2, PopInto DEF MergeDone
  <2> QED  BY <1>0, <1>6, <2>3 DEF MergeDone, Counters
<1>7. CASE MergeErrors
  <2>1. Depth > 1 /\ Top.names.errors \in Nat
    BY <1>0, <1>7 DEF MergeErrors, Counters, KeyNames, KeyNamesType
  <2> QED  BY <1>0, <1>6, <1>7, <2>1, OtherFields DEF MergeErrors
\* A step of a merge changes the names of the frame below.
<1>8. ASSUME NEW info \in KeyNames, Depth > 1,
             frames' = [frames EXCEPT ![Depth - 1].names = info],
             merging' \in [what : {"nothing", "keys", "leds"}, next : Nat],
             UNCHANGED statements
      PROVE  WellFormed(frames') /\ Counters'
  <2>1. Depth - 1 \in 1 .. Len(frames)
    BY <1>0, <1>8
  <2>2. WellFormed(frames') /\ Len(frames') = Len(frames)
    <3>1. WellFormed([frames EXCEPT ![Depth - 1].names = info])
          /\ Len([frames EXCEPT ![Depth - 1].names = info]) = Len(frames)
      <4>1. WellFormed(frames)
        BY <1>0
      <4> QED  BY <2>1, <4>1, Change
    <3> QED  BY <1>8, <3>1
  <2> QED  BY <1>0, <1>8, <2>2 DEF Counters, Depth
<1>9. CASE MergeKey
  <2>1. /\ Depth > 1 /\ merging.next \in Keycodes /\ Below.names \in KeyNames
        /\ merging' \in [what : {"nothing", "keys", "leds"}, next : Nat]
        /\ UNCHANGED statements
    <3>1. Depth > 1 /\ Below.names \in KeyNames
      BY <1>0, <1>9 DEF MergeKey, Counters
    <3>2. Top.names.max \in Keycodes
      BY <1>0 DEF KeyNames, KeyNamesType
    <3>3. merging.next \in Nat /\ merging.next <= Top.names.max
      BY <1>0, <1>9 DEF MergeKey, Counters
    <3>4. merging.next \in Keycodes
      BY <3>2, <3>3, KeycodesAssumption DEF Keycodes
    <3>5. merging' = [merging EXCEPT !.next = merging.next + 1] /\ UNCHANGED statements
      BY <1>9 DEF MergeKey
    <3>6. merging' \in [what : {"nothing", "keys", "leds"}, next : Nat]
      BY <1>0, <3>5 DEF Counters
    <3> QED  BY <3>1, <3>4, <3>5, <3>6
  <2> DEFINE name == Top.names.keys[merging.next]
  <2>2. name \in Names \cup {NoName}
    BY <1>0, <2>1 DEF KeyNames, KeyNamesType
  <2>3. CASE name = NoName
    BY <1>0, <1>9, <2>1, <2>3 DEF MergeKey, Counters, Depth
  <2>4. CASE name # NoName
    <3>1. AddKeyName(Below.names, merging.next, name, Top.merge) \in KeyNames
      BY <2>1, <2>2, <2>4, AddKeyNameFacts
    <3>2. frames' = [frames EXCEPT ![Depth - 1].names =
                       AddKeyName(Below.names, merging.next, name, Top.merge)]
      BY <1>9, <2>4 DEF MergeKey, Below
    <3> QED  BY <1>8, <2>1, <3>1, <3>2
  <2> QED  BY <2>3, <2>4
<1>10. CASE MergeAliases
  <2> DEFINE T    == [real : Names \cup {NoName}, merge : Merges]
             info == [Below.names EXCEPT !.aliases = MergedAliases]
             full == [info EXCEPT !.keys = Top.names.keys, !.min = Top.names.min,
                                  !.max = Top.names.max]
  <2>1. Depth > 1 /\ Below.names \in KeyNames
    BY <1>0, <1>10 DEF MergeAliases, Counters
  <2>2. Top.names.aliases \in [Names -> T] /\ Below.names.aliases \in [Names -> T]
    BY <1>0, <2>1 DEF KeyNames, KeyNamesType
  <2>3. MergedAliases \in [Names -> T]
    <3>1. ASSUME NEW n \in Names, Top.names.aliases[n] # NoAlias
          PROVE  AddAlias(Below.names.aliases, n, Top.names.aliases[n].real,
                          EffectiveMerge(Top.names.aliases[n].merge))[n] \in T
      <4>1. EffectiveMerge(Top.names.aliases[n].merge) \in Merges
        BY <1>0, <2>2 DEF EffectiveMerge
      <4>2. AddAlias(Below.names.aliases, n, Top.names.aliases[n].real,
                     EffectiveMerge(Top.names.aliases[n].merge)) \in [Names -> T]
        BY <2>2, <4>1, AddAliasType
      <4> QED  BY <4>2
    <3> QED  BY <2>2, <3>1 DEF MergedAliases
  <2>4. info \in KeyNames
    BY <2>1, <2>3, OtherFields
  <2>5. full \in KeyNames
    <3>1. full \in KeyNamesType
      BY <1>0, <2>4 DEF KeyNames, KeyNamesType
    <3>2. full.keys = Top.names.keys /\ full.min = Top.names.min /\ full.max = Top.names.max
      BY <2>4 DEF KeyNames, KeyNamesType
    <3>3. Sound(full)
      BY <1>0, <3>2 DEF KeyNames, Sound
    <3> QED  BY <3>1, <3>3 DEF KeyNames
  <2>6. frames' = [frames EXCEPT ![Depth - 1].names =
                     IF Below.names.min # NoKeycode THEN info ELSE full]
    BY <1>10 DEF MergeAliases
  <2>7. merging' \in [what : {"nothing", "keys", "leds"}, next : Nat] /\ UNCHANGED statements
    BY <1>10 DEF MergeAliases
  <2> HIDE DEF info, full
  <2> QED  BY <1>8, <2>1, <2>4, <2>5, <2>6, <2>7
<1>11. CASE MergeLed
  <2> DEFINE led   == Top.names.leds[merging.next]
             merge == EffectiveMerge(led.merge)
             leds  == AddLedName(Below.names.leds, [led EXCEPT !.merge = merge], merging.next, merge)
             T     == [name : Names \cup {NoName}, merge : Merges]
  <2>1. /\ Depth > 1 /\ merging.next \in Leds /\ Below.names \in KeyNames
        /\ merging' \in [what : {"nothing", "keys", "leds"}, next : Nat]
        /\ UNCHANGED statements
    BY <1>0, <1>11 DEF MergeLed, Counters
  <2>2. led \in T /\ Below.names.leds \in [Leds -> T]
    BY <1>0, <2>1 DEF KeyNames, KeyNamesType
  <2>3. [led EXCEPT !.merge = merge] \in T
    BY <1>0, <2>2 DEF EffectiveMerge
  <2>4. leds \in [Leds -> T]
    BY <2>1, <2>2, <2>3, AddLedNameType
  <2>5. [Below.names EXCEPT !.leds = leds] \in KeyNames
    BY <2>1, <2>4, OtherFields
  <2>6. CASE led = NoLed
    BY <1>0, <1>11, <2>1, <2>6 DEF MergeLed, Counters, Depth
  <2>7. CASE led # NoLed
    <3>1. frames' = [frames EXCEPT ![Depth - 1].names.leds = leds]
      BY <1>11, <2>7 DEF MergeLed, Below
    <3>2. frames' = [frames EXCEPT ![Depth - 1].names = [Below.names EXCEPT !.leds = leds]]
      BY <3>1 DEF Below
    <3> QED  BY <1>8, <2>1, <2>5, <3>2
  <2> QED  BY <2>6, <2>7
<1>12. CASE MergeEnd
  <2>1. Depth > 1 /\ Below.names \in KeyNames
    BY <1>0, <1>12 DEF MergeEnd, Counters
  <2>2. [Below.names EXCEPT !.leds = Top.names.leds] \in KeyNames
    BY <1>0, <2>1, OtherFields DEF KeyNames, KeyNamesType
  <2> QED  BY <1>6, <1>12, <2>1, <2>2 DEF MergeEnd
<1>13. CASE Compile \/ UNCHANGED keycodesVars
  BY <1>0, <1>13 DEF Compile, keycodesVars, Counters, Depth
<1> QED
  BY <1>2, <1>3, <1>4, <1>5, <1>7, <1>9, <1>10, <1>11, <1>12, <1>13 DEF KeycodesNext

\* For any number of files, keys and statements: the types of the names gathered.
THEOREM KeycodesTypeCorrect == KeycodesSpec => []KeycodesTypeOK
<1>1. KeycodesSpec => []KInv
  BY KInit, KNext, PTL DEF KeycodesSpec
<1> QED
  BY <1>1, KInvImplies, PTL

\* No two keys share a name and FindKeyByName misses none, whatever is included in
\* whatever merge mode (keycodes.c:168, 180).
THEOREM KeyNamesStaySound == KeycodesSpec => []KeyNamesSound
<1>1. KeycodesSpec => []KInv
  BY KInit, KNext, PTL DEF KeycodesSpec
<1> QED
  BY <1>1, KInvImplies, PTL

-----------------------------------------------------------------------------
(* Merging *)

\* The step that merges a key: the file above stays, the one below takes the name.
LEMMA MergeKeyFacts ==
  ASSUME KInv, MergeKey
  PROVE  LET name == Top.names.keys[merging.next] IN
         /\ merging.next \in Keycodes /\ Depth > 1 /\ Depth' = Depth
         /\ frames'[Depth] = Top
         /\ frames'[Depth - 1].names =
              IF name = NoName THEN Below.names
              ELSE AddKeyName(Below.names, merging.next, name, Top.merge)
         /\ name # NoName => AddKeyName(Below.names, merging.next, name, Top.merge) \in KeyNames
  <1> DEFINE name == Top.names.keys[merging.next]
             info == AddKeyName(Below.names, merging.next, name, Top.merge)
  <1>1. /\ Depth \in Nat \ {0} /\ Depth = Len(frames) /\ WellFormed(frames)
        /\ Top.names \in KeyNames /\ Depth > 1 /\ Below.names \in KeyNames
        /\ merging.next \in Nat /\ merging.next <= Top.names.max
    BY FrameFacts DEF KInv, Counters, MergeKey, Depth
  <1>2. merging.next \in Keycodes
    <2>1. Top.names.max \in Keycodes
      BY <1>1 DEF KeyNames, KeyNamesType
    <2> QED  BY <1>1, <2>1, KeycodesAssumption DEF Keycodes
  <1>3. CASE name = NoName
    BY <1>1, <1>2, <1>3 DEF MergeKey, Depth, Top, Below
  <1>4. CASE name # NoName
    <2>1. info \in KeyNames
      <3>1. name \in Names
        BY <1>1, <1>2, <1>4 DEF KeyNames, KeyNamesType
      <3> QED  BY <1>1, <1>2, <3>1, AddKeyNameFacts
    <2>2. frames' = [frames EXCEPT ![Depth - 1].names = info]
      BY <1>4 DEF MergeKey, Below
    <2>3. Depth - 1 \in 1 .. Len(frames) /\ Depth \in 1 .. Len(frames) /\ Depth # Depth - 1
      BY <1>1
    <2> HIDE DEF info
    <2>4. /\ Len(frames') = Len(frames) /\ frames'[Depth - 1].names = info
          /\ frames'[Depth] = frames[Depth]
      <3> DEFINE new == [frames EXCEPT ![Depth - 1].names = info]
      <3>1. WellFormed(frames)
        BY <1>1
      <3>2. /\ Len(new) = Len(frames) /\ new[Depth - 1].names = info
            /\ \A f \in 1 .. Len(frames) : f # Depth - 1 => new[f] = frames[f]
        BY <2>1, <2>3, <3>1, Change
      <3> HIDE DEF new
      <3> QED  BY <2>2, <2>3, <3>2 DEF new
    <2> QED  BY <1>1, <1>2, <1>4, <2>1, <2>4 DEF Depth, Top, info
  <1> QED
    BY <1>3, <1>4

LEMMA OverrideNext ==
  KInv /\ OverrideWins /\ [KeycodesNext]_keycodesVars => OverrideWins'
<1> SUFFICES ASSUME KInv, OverrideWins, [KeycodesNext]_keycodesVars, (merging.what = "keys")'
             PROVE  OverrideWins'
  BY DEF OverrideWins
<1>1. CASE StartMerge
  <2>1. Top.names.min \in Nat
    BY FrameFacts, KeycodesAssumption DEF KeyNames, KeyNamesType, NoKeycode
  <2>2. Top' = Top /\ merging'.next = Top.names.min
    BY <1>1 DEF StartMerge, Top, Depth
  <2> QED  BY <2>1, <2>2 DEF OverrideWins
<1>2. CASE MergeKey
  <2> DEFINE here == merging.next
             name == Top.names.keys[here]
  <2>1. /\ here \in Keycodes /\ Depth' = Depth
        /\ Top' = Top
        /\ Below'.names = IF name = NoName THEN Below.names
                          ELSE AddKeyName(Below.names, here, name, Top.merge)
        /\ merging'.next = here + 1
        /\ Below.names \in KeyNames /\ Top.names \in KeyNames
    <3>1. merging'.next = here + 1
      BY <1>2 DEF MergeKey, KInv, Counters
    <3> QED  BY <1>2, <3>1, MergeKeyFacts, FrameFacts DEF Top, Below
  <2>2. merging.what = "keys" /\ Below.names.min # NoKeycode
    BY <1>2 DEF MergeKey
  <2> SUFFICES ASSUME Top.merge = "override", Top.names.errors = 0,
                      NEW kc \in Top.names.min .. here, kc \in Keycodes,
                      Top.names.keys[kc] # NoName
               PROVE  Below'.names.keys[kc] = Top.names.keys[kc]
    <3>1. merging'.next - 1 = here
      BY <2>1, KeycodesAssumption DEF Keycodes
    <3> HIDE DEF here
    <3> QED  BY <2>1, <3>1 DEF OverrideWins
  <2>3. CASE kc = here
    <3>1. name \in Names
      BY <2>1, <2>3 DEF KeyNames, KeyNamesType
    <3>2. Below.names \in KeyNamesType
      BY <2>1 DEF KeyNames
    <3> QED  BY <2>1, <2>3, <3>1, <3>2, AddKeyNameOverrides
  <2>4. CASE kc # here
    <3>1. kc \in Top.names.min .. here - 1
      BY <2>1, <2>4, KeycodesAssumption DEF Keycodes, KeyNames, KeyNamesType, NoKeycode
    <3>2. Below.names.keys[kc] = Top.names.keys[kc]
      BY <2>2, <3>1 DEF OverrideWins
    <3>3. CASE name = NoName
      BY <2>1, <3>2, <3>3
    <3>4. CASE name # NoName
      <4>1. name \in Names
        BY <2>1, <3>4 DEF KeyNames, KeyNamesType
      <4>2. Top.names.keys[kc] # name
        BY <2>1, <2>4, <3>4 DEF KeyNames, Sound
      <4>3. Below.names \in KeyNamesType
        BY <2>1 DEF KeyNames
      <4>4. AddKeyName(Below.names, here, name, "override").keys[kc] = Below.names.keys[kc]
        <5>1. here \in Keycodes /\ kc \in Keycodes /\ Below.names.keys[kc] # name
          BY <2>1, <3>2, <4>2
        <5> HIDE DEF here, name
        <5> QED  BY <2>4, <4>1, <4>3, <5>1, AddKeyNameOverrides
      <4> QED  BY <2>1, <3>2, <3>4, <4>4
    <3> QED  BY <3>3, <3>4
  <2> QED  BY <2>3, <2>4
<1>3. CASE UNCHANGED keycodesVars
  BY <1>3 DEF OverrideWins, keycodesVars, Top, Below, Depth
<1>4. CASE ~(StartMerge \/ MergeKey \/ UNCHANGED keycodesVars)
  <2>1. CASE ReadFile \/ FileMissing \/ Compile \/ \E m \in {"override", "augment"} : NextFile(m)
    BY <2>1 DEF ReadFile, KeycodeDef, AliasDef, LedNameDef, BadStatement, Include, NextFile,
      FileMissing, Compile, Statement, Idle
  <2>2. CASE MergeErrors \/ MergeEnd
    BY <2>2 DEF MergeErrors, MergeEnd, MergeDone
  <2>3. CASE MergeAliases
    BY <2>3 DEF MergeAliases
  <2>4. CASE MergeLed
    BY <2>4 DEF MergeLed, KInv, Counters
  <2> QED  BY <1>4, <2>1, <2>2, <2>3, <2>4 DEF KeycodesNext
<1> QED
  BY <1>1, <1>2, <1>3, <1>4

LEMMA AugmentStep ==
  ASSUME KInv, [KeycodesNext]_keycodesVars, merging.what = "keys", Top.merge = "augment",
         ~UNCHANGED keycodesVars,
         NEW kc \in Keycodes, Below.names.keys[kc] # NoName
  PROVE  frames'[Depth - 1].names.keys[kc] = Below.names.keys[kc]
<1>1. /\ Depth \in Nat /\ Depth > 1 /\ Depth = Len(frames) /\ WellFormed(frames)
      /\ Top.names \in KeyNames /\ Below.names \in KeyNames
  BY FrameFacts DEF KInv, Counters, Depth
<1>2. CASE MergeKey
  <2> DEFINE name == Top.names.keys[merging.next]
  <2>1. /\ merging.next \in Keycodes
        /\ frames'[Depth - 1].names =
             IF name = NoName THEN Below.names
             ELSE AddKeyName(Below.names, merging.next, name, "augment")
    BY <1>2, MergeKeyFacts
  <2>2. name \in Names \cup {NoName} /\ Below.names \in KeyNamesType
    BY <1>1, <2>1 DEF KeyNames, KeyNamesType
  <2> QED  BY <2>1, <2>2, AddKeyNameAugments
<1>3. CASE MergeErrors
  <2>1. Top.names.errors \in Nat
    BY <1>1 DEF KeyNames, KeyNamesType
  <2> DEFINE info == Failed(Below.names, Top.names.errors)
  <2>2. info \in KeyNames /\ info.keys = Below.names.keys
    BY <1>1, <2>1, OtherFields
  <2>3. AfterMerge(info) \in KeyNames /\ AfterMerge(info).keys = Below.names.keys
    BY <2>2, OtherFields DEF AfterMerge
  <2> HIDE DEF info
  <2>4. WellFormed(SubSeq(frames, 1, Depth - 1)) /\ Len(SubSeq(frames, 1, Depth - 1)) = Depth - 1
    BY <1>1, Pop
  <2>5. Depth - 1 \in 1 .. Len(SubSeq(frames, 1, Depth - 1))
    BY <1>1, <2>4
  <2>6. frames'[Depth - 1].names = AfterMerge(info)
    <3>1. frames' = [SubSeq(frames, 1, Depth - 1) EXCEPT ![Depth - 1].names = AfterMerge(info)]
      BY <1>3 DEF MergeErrors, MergeDone, info
    <3> DEFINE s   == SubSeq(frames, 1, Depth - 1)
               new == [s EXCEPT ![Depth - 1].names = AfterMerge(info)]
    <3>2. WellFormed(s) /\ Depth - 1 \in 1 .. Len(s)
      BY <2>4, <2>5
    <3> HIDE DEF s
    <3>3. new[Depth - 1].names = AfterMerge(info)
      BY <2>3, <3>2, Change
    <3> QED  BY <3>1, <3>3 DEF s
  <2> QED  BY <2>3, <2>6
<1>4. CASE MergeAliases
  <2>1. Below.names.min # NoKeycode
    <3>1. /\ kc \in Below.names.min .. Below.names.max
          /\ Below.names.max \in Keycodes
      BY <1>1 DEF KeyNames, KeyNamesType, Sound
    <3> QED  BY <3>1, KeycodesAssumption DEF Keycodes, NoKeycode
  <2> DEFINE info == [Below.names EXCEPT !.aliases = MergedAliases]
  <2>2. frames' = [frames EXCEPT ![Depth - 1].names = info]
    BY <1>4, <2>1 DEF MergeAliases
  <2>3. info.keys = Below.names.keys
    BY <1>1 DEF KeyNames, KeyNamesType
  <2>4. Depth - 1 \in DOMAIN frames /\ frames[Depth - 1] \in FrameType
    BY <1>1 DEF WellFormed
  <2> HIDE DEF info
  <2>5. frames'[Depth - 1].names = info
    BY <2>2, <2>4 DEF FrameType
  <2> QED  BY <2>3, <2>5
<1>5. CASE ~(MergeKey \/ MergeErrors \/ MergeAliases)
  BY <1>5 DEF KeycodesNext, ReadFile, KeycodeDef, AliasDef, LedNameDef, BadStatement, Include,
      NextFile, FileMissing, StartMerge, MergeLed, MergeEnd, Compile, Statement, Idle
<1> QED
  BY <1>2, <1>3, <1>4, <1>5

\* A file that overrides has the last word: what it has named stays named by it while
\* its later keys are merged (keycodes.c:280).
THEOREM OverrideHasLastWord == KeycodesSpec => []OverrideWins
<1>1. KeycodesInit => OverrideWins
  BY DEF KeycodesInit, OverrideWins
<1>2. KeycodesSpec => []KInv
  BY KInit, KNext, PTL DEF KeycodesSpec
<1> QED
  BY <1>1, <1>2, OverrideNext, PTL DEF KeycodesSpec

\* A file that augments takes no name away (keycodes.c:212).
THEOREM AugmentTakesNothing == KeycodesSpec => AugmentKeeps
<1> DEFINE Keeps == merging.what = "keys" /\ Top.merge = "augment" =>
       \A kc \in Keycodes :
         LET old == Below.names.keys[kc] IN
         old # NoName => frames'[Depth - 1].names.keys[kc] = old
<1>1. KInv /\ [KeycodesNext]_keycodesVars => [Keeps]_keycodesVars
  BY AugmentStep
<1>2. KeycodesSpec => []KInv
  BY KInit, KNext, PTL DEF KeycodesSpec
<1>3. KeycodesSpec => [][Keeps]_keycodesVars
  BY <1>1, <1>2, PTL DEF KeycodesSpec
<1> QED
  BY <1>3 DEF AugmentKeeps

-----------------------------------------------------------------------------
(* Keyboard: what the closures that wait do to shift *)

\* A closure that runs while the client holds shift (before) leaves it holding
\* shift (after); a key is read as it is meant.
Reads(x, before, after) ==
  \/ x.what = "shift" /\ after = x.down
  \/ x.what = "key" /\ after = before /\ x.shift = before
  \/ x.what \notin {"shift", "key"} /\ after = before

\* So do the closures of s, one after the other: mark is what the client holds
\* before each of them and at the end.
Runs(s, a, b) ==
  \E mark \in [1 .. Len(s) + 1 -> BOOLEAN] :
    /\ mark[1] = a /\ mark[Len(s) + 1] = b
    /\ \A i \in 1 .. Len(s) : Reads(s[i], mark[i], mark[i + 1])

\* How closures that run put themselves together and come apart.
LEMMA RunsOne ==
  ASSUME NEW x \in Closures, NEW a \in BOOLEAN, NEW b \in BOOLEAN, Reads(x, a, b)
  PROVE  <<x>> \in Seq(Closures) /\ Runs(<<x>>, a, b)
  <1> DEFINE mark == [i \in 1 .. 2 |-> IF i = 1 THEN a ELSE b]
  <1>1. /\ mark \in [1 .. 2 -> BOOLEAN]
        /\ mark[1] = a /\ mark[2] = b
    OBVIOUS
  <1>2. Len(<<x>>) = 1 /\ <<x>>[1] = x
    OBVIOUS
  <1> HIDE DEF mark
  <1>3. \A i \in 1 .. 1 : Reads(<<x>>[i], mark[i], mark[i + 1])
    <2> SUFFICES Reads(<<x>>[1], mark[1], mark[1 + 1])
      OBVIOUS
    <2> QED
      BY <1>1, <1>2
  <1> QED
    BY <1>1, <1>2, <1>3 DEF Runs

LEMMA RunsConcat ==
  ASSUME NEW s \in Seq(Closures), NEW t \in Seq(Closures),
         NEW a, NEW m, NEW b, Runs(s, a, m), Runs(t, m, b)
  PROVE  s \o t \in Seq(Closures) /\ Runs(s \o t, a, b)
  <1>1. PICK h \in [1 .. Len(s) + 1 -> BOOLEAN] :
          /\ h[1] = a /\ h[Len(s) + 1] = m
          /\ \A i \in 1 .. Len(s) : Reads(s[i], h[i], h[i + 1])
    BY DEF Runs
  <1>2. PICK g \in [1 .. Len(t) + 1 -> BOOLEAN] :
          /\ g[1] = m /\ g[Len(t) + 1] = b
          /\ \A i \in 1 .. Len(t) : Reads(t[i], g[i], g[i + 1])
    BY DEF Runs
  <1> DEFINE n == Len(s)
             k == Len(t)
             u == s \o t
             mark == [i \in 1 .. n + k + 1 |-> IF i <= n THEN h[i] ELSE g[i - n]]
  <1>3. n \in Nat /\ k \in Nat
    OBVIOUS
  <1>4. /\ u \in Seq(Closures) /\ Len(u) = n + k
        /\ \A i \in 1 .. n + k : u[i] = IF i <= n THEN s[i] ELSE t[i - n]
    BY ConcatProperties
  <1> HIDE DEF n, k, u
  <1>5. mark \in [1 .. n + k + 1 -> BOOLEAN]
    BY <1>1, <1>2, <1>3 DEF n, k
  <1>6. /\ \A i \in 1 .. n : mark[i] = h[i]
        /\ \A j \in 1 .. k + 1 : mark[n + j] = g[j]
    BY <1>3
  <1>7. mark[n + 1] = m /\ mark[n + k + 1] = b
    BY <1>2, <1>3, <1>6 DEF k
  <1>8. mark[1] = a
    BY <1>1, <1>3, <1>6, <1>7 DEF n
  <1> HIDE DEF mark
  <1>9. ASSUME NEW i \in 1 .. n + k PROVE Reads(u[i], mark[i], mark[i + 1])
    <2>1. CASE i < n
      <3>1. u[i] = s[i] /\ mark[i] = h[i] /\ mark[i + 1] = h[i + 1]
        BY <1>3, <1>4, <1>6, <2>1
      <3> QED BY <1>1, <1>3, <2>1, <3>1 DEF n
    <2>2. CASE i = n
      <3>1. u[i] = s[i] /\ mark[i] = h[i] /\ mark[i + 1] = h[i + 1]
        BY <1>1, <1>3, <1>4, <1>6, <1>7, <2>2 DEF n
      <3> QED BY <1>1, <1>3, <2>2, <3>1 DEF n
    <2>3. CASE i > n
      <3> DEFINE j == i - n
      <3>1. /\ j \in 1 .. k /\ j \in 1 .. k + 1 /\ j + 1 \in 1 .. k + 1
            /\ i = n + j /\ i + 1 = n + (j + 1)
        BY <1>3, <2>3
      <3>2. u[i] = t[j]
        BY <1>3, <1>4, <2>3
      <3> HIDE DEF j
      <3>3. mark[i] = g[j] /\ mark[i + 1] = g[j + 1]
        BY <1>6, <3>1
      <3> QED BY <1>2, <3>1, <3>2, <3>3 DEF k
    <2> QED BY <1>3, <2>1, <2>2, <2>3
  <1> QED
    BY <1>4, <1>5, <1>7, <1>8, <1>9 DEF Runs, u

LEMMA RunsHead ==
  ASSUME NEW s \in Seq(Closures), s # << >>, NEW a, NEW b, Runs(s, a, b)
  PROVE  \E c \in BOOLEAN : Reads(Head(s), a, c) /\ Runs(Tail(s), c, b)
  <1>1. PICK h \in [1 .. Len(s) + 1 -> BOOLEAN] :
          /\ h[1] = a /\ h[Len(s) + 1] = b
          /\ \A i \in 1 .. Len(s) : Reads(s[i], h[i], h[i + 1])
    BY DEF Runs
  <1> DEFINE n == Len(s)
             t == Tail(s)
             g == [i \in 1 .. n |-> h[i + 1]]
  <1>2. /\ n \in Nat /\ n >= 1 /\ Head(s) = s[1]
        /\ Len(t) = n - 1 /\ \A i \in 1 .. n - 1 : t[i] = s[i + 1]
    BY HeadTailProperties, EmptySeq
  <1> HIDE DEF n, t
  <1>3. /\ g \in [1 .. n -> BOOLEAN]
        /\ g[1] = h[2] /\ g[n] = b
        /\ \A i \in 1 .. n : g[i] = h[i + 1]
    BY <1>1, <1>2 DEF n
  <1> HIDE DEF g
  <1>4. h[2] \in BOOLEAN /\ Reads(Head(s), a, h[2])
    <2>1. Reads(s[1], h[1], h[1 + 1])
      BY <1>1, <1>2 DEF n
    <2> QED BY <1>1, <1>2, <2>1 DEF n
  <1>5. ASSUME NEW i \in 1 .. n - 1 PROVE Reads(t[i], g[i], g[i + 1])
    <2>1. i + 1 \in 1 .. n /\ Reads(s[i + 1], h[i + 1], h[(i + 1) + 1])
      BY <1>1, <1>2 DEF n
    <2>2. g[i] = h[i + 1] /\ g[i + 1] = h[(i + 1) + 1] /\ t[i] = s[i + 1]
      BY <1>2, <1>3
    <2> QED BY <2>1, <2>2
  <1>6. Len(t) + 1 = n
    BY <1>2
  <1>7. Runs(t, h[2], b)
    BY <1>2, <1>3, <1>5, <1>6 DEF Runs
  <1> QED
    BY <1>4, <1>7 DEF t

LEMMA RunsNothing ==
  ASSUME NEW s, s = << >>, NEW a, NEW b, Runs(s, a, b)
  PROVE  a = b
  BY DEF Runs

\* Layouts and keymaps leave shift alone.
LEMMA RunsQuiet ==
  ASSUME NEW s \in Seq(Closures), NEW a \in BOOLEAN,
         \A i \in DOMAIN s : s[i].what \in {"layout", "keymap"}
  PROVE  Runs(s, a, a)
  <1> DEFINE n == Len(s)
             mark == [i \in 1 .. n + 1 |-> a]
  <1>1. n \in Nat /\ DOMAIN s = 1 .. n
    BY LenProperties
  <1> HIDE DEF n
  <1>2. /\ mark \in [1 .. n + 1 -> BOOLEAN]
        /\ \A i \in 1 .. n + 1 : mark[i] = a
    OBVIOUS
  <1> HIDE DEF mark
  <1>3. \A i \in 1 .. n : Reads(s[i], mark[i], mark[i + 1])
    BY <1>1, <1>2 DEF Reads
  <1>4. mark[1] = a /\ mark[n + 1] = a
    BY <1>1, <1>2
  <1> QED BY <1>2, <1>3, <1>4 DEF Runs, n

LEMMA RunsEmpty ==
  ASSUME NEW a \in BOOLEAN
  PROVE  << >> \in Seq(Closures) /\ Runs(<< >>, a, a)
  <1>1. << >> \in Seq(Closures) /\ DOMAIN << >> = {}
    OBVIOUS
  <1> QED BY <1>1, RunsQuiet

LEMMA RunsAppend ==
  ASSUME NEW s \in Seq(Closures), NEW x \in Closures, NEW a, NEW b \in BOOLEAN, NEW c \in BOOLEAN,
         Runs(s, a, b), Reads(x, b, c)
  PROVE  Runs(Append(s, x), a, c)
  <1>1. <<x>> \in Seq(Closures) /\ Append(s, x) = s \o <<x>>
    OBVIOUS
  <1>2. Runs(<<x>>, b, c)
    BY RunsOne
  <1>3. Runs(s \o <<x>>, a, c)
    BY <1>1, <1>2, RunsConcat
  <1> QED BY <1>1, <1>3, Zenon

LEMMA ClosureTypes ==
  /\ \A l \in Layouts : ToLayout(l) \in Closures
  /\ SendKeymap \in Closures
  /\ \A d \in BOOLEAN : Shift(d) \in Closures
  /\ \A d \in BOOLEAN, stroke \in CodeStrokes \cup CharacterStrokes : Key(d, stroke) \in Closures
  BY KeyboardAssumption DEF Closures, ToLayout, SendKeymap, Shift, Key, CodeStrokes, CharacterStrokes

\* Whatever a stroke is, its closures find shift released and leave it released.
LEMMA StrokeRuns ==
  ASSUME NEW stroke \in CodeStrokes \cup CharacterStrokes
  PROVE  /\ stroke.layout \in Layouts
         /\ KeyInShift(stroke) \in Seq(Closures)
         /\ Runs(KeyInShift(stroke), FALSE, FALSE)
  <1>1. /\ stroke.layout \in Layouts /\ stroke.shift \in BOOLEAN /\ stroke.down \in BOOLEAN
        /\ stroke.key = "shift" /\ stroke.down = TRUE => stroke.shift = TRUE
    BY KeyboardAssumption DEF CodeStrokes, CharacterStrokes
  <1> DEFINE left == IF stroke.key = "shift" THEN stroke.down ELSE stroke.shift
             press == IF stroke.shift THEN <<Shift(TRUE)>> ELSE << >>
             made == IF stroke.key = "character" THEN <<Key(TRUE, stroke)>> ELSE << >>
             own == IF stroke.key = "shift" THEN <<Shift(stroke.down)>>
                                           ELSE <<Key(stroke.down, stroke)>>
             release == IF stroke.shift THEN <<Shift(FALSE)>> ELSE << >>
  <1>2. /\ Shift(TRUE) \in Closures /\ Shift(FALSE) \in Closures /\ Shift(stroke.down) \in Closures
        /\ Key(TRUE, stroke) \in Closures /\ Key(stroke.down, stroke) \in Closures
    BY <1>1, ClosureTypes
  <1>3. \A a, d \in BOOLEAN : Reads(Shift(d), a, d)
    BY DEF Reads, Shift
  <1>4. \A d \in BOOLEAN : Reads(Key(d, stroke), stroke.shift, stroke.shift)
    BY DEF Reads, Key
  <1>5. left \in BOOLEAN /\ (~stroke.shift => left = FALSE)
    BY <1>1
  <1>6. press \in Seq(Closures) /\ Runs(press, FALSE, stroke.shift)
    <2>1. CASE stroke.shift
      <3>1. press = <<Shift(TRUE)>> /\ stroke.shift = TRUE
        BY <1>1, <2>1, Zenon
      <3> HIDE DEF press
      <3> QED BY <1>2, <1>3, <3>1, RunsOne, Zenon
    <2>2. CASE ~stroke.shift
      <3>1. press = << >> /\ stroke.shift = FALSE
        BY <1>1, <2>2, Zenon
      <3> HIDE DEF press
      <3> QED BY <3>1, RunsEmpty, Zenon
    <2> QED BY <2>1, <2>2
  <1>7. made \in Seq(Closures) /\ Runs(made, stroke.shift, stroke.shift)
    <2>1. CASE stroke.key = "character"
      BY <1>1, <1>2, <1>4, <2>1, RunsOne, Zenon
    <2>2. CASE stroke.key # "character"
      BY <1>1, <2>2, RunsEmpty, Zenon
    <2> QED BY <2>1, <2>2
  <1>8. own \in Seq(Closures) /\ Runs(own, stroke.shift, left)
    <2>1. CASE stroke.key = "shift"
      BY <1>1, <1>2, <1>3, <2>1, RunsOne, Zenon
    <2>2. CASE stroke.key # "shift"
      BY <1>1, <1>2, <1>4, <2>2, RunsOne, Zenon
    <2> QED BY <2>1, <2>2
  <1>9. release \in Seq(Closures) /\ Runs(release, left, FALSE)
    <2>1. CASE stroke.shift
      <3>1. release = <<Shift(FALSE)>>
        BY <2>1
      <3> HIDE DEF release, left
      <3> QED BY <1>2, <1>3, <1>5, <3>1, RunsOne, Zenon
    <2>2. CASE ~stroke.shift
      <3>1. release = << >>
        BY <2>2
      <3> HIDE DEF release, left
      <3> QED BY <1>5, <2>2, <3>1, RunsEmpty, Zenon
    <2> QED BY <2>1, <2>2
  <1>10. KeyInShift(stroke) = ((press \o made) \o own) \o release
    BY DEF KeyInShift
  <1> HIDE DEF press, made, own, release, left
  <1>11. press \o made \in Seq(Closures) /\ Runs(press \o made, FALSE, stroke.shift)
    BY <1>6, <1>7, RunsConcat
  <1>12. /\ (press \o made) \o own \in Seq(Closures)
         /\ Runs((press \o made) \o own, FALSE, left)
    BY <1>8, <1>11, RunsConcat
  <1>13. /\ ((press \o made) \o own) \o release \in Seq(Closures)
         /\ Runs(((press \o made) \o own) \o release, FALSE, FALSE)
    BY <1>9, <1>12, RunsConcat
  <1> QED BY <1>1, <1>10, <1>13

-----------------------------------------------------------------------------
(* The inductive invariant of Keyboard *)

\* The client of the toplevel gets the keys.
Listening == toplevel # None /\ known[toplevel] # None

\* What waits reads every key as it is meant, from what the client holds now,
\* and in the end shift is released.
ShiftInv ==
  \E a, m \in BOOLEAN :
    /\ Runs(queue, a, m) /\ Runs(posting, m, FALSE)
    /\ Listening => (a = TRUE <=> toplevel \in shifted)

\* Only the client that gets the keys can hold shift.
HeldInToplevel == \A c \in shifted : c = toplevel /\ known[c] # None

\* Before the first key every keymap that a client has is the one it will need
\* when it gets the toplevel.
BeforeKeys ==
  strokes = 0 =>
    /\ posting = << >> /\ queue = << >>
    /\ keymap = layout /\ ~compiling
    /\ \A c \in Clients : known[c] \in {layout, None}

\* The client has the keymap, or a closure that sends it waits.
KeymapSent ==
  /\ keymap \in {layout, None}
  /\ ~compiling /\ keymap # None /\ Listening
       => known[toplevel] = layout \/ \E i \in DOMAIN queue : queue[i].what = "keymap"

KeyboardInv ==
  TypeOK /\ ShiftInv /\ HeldInToplevel /\ BeforeKeys /\ KeymapSent /\ ShiftAsMeant

LEMMA KeyboardInit == Init => KeyboardInv
  <1> SUFFICES ASSUME Init PROVE KeyboardInv
    OBVIOUS
  <1>1. TypeOK
    <2>1. posting \in Seq(Closures) /\ queue \in Seq(Closures) /\ strokes \in 0 .. MaxStrokes
      BY KeyboardAssumption, EmptySeq DEF Init
    <2>2. layout \in Layouts /\ keymap \in Layouts \cup {None} /\ toplevel \in Clients \cup {None}
      BY KeyboardAssumption DEF Init
    <2>3. known \in [Clients -> Layouts \cup {None}] /\ shifted \subseteq Clients
      BY DEF Init
    <2>4. compiling = FALSE /\ last = None /\ crashed = FALSE
      BY DEF Init
    <2> QED BY <2>1, <2>2, <2>3, <2>4 DEF TypeOK
  <1>2. ShiftInv
    BY RunsEmpty DEF Init, ShiftInv, Listening
  <1>3. HeldInToplevel /\ BeforeKeys /\ KeymapSent /\ ShiftAsMeant
    BY KeyboardAssumption DEF Init, HeldInToplevel, BeforeKeys, KeymapSent, ShiftAsMeant, Listening
  <1> QED BY <1>1, <1>2, <1>3 DEF KeyboardInv

\* The closure at the head is taken and the rest stays.
LEMMA RunningFacts ==
  ASSUME TypeOK, NEW what, Running(what)
  PROVE  /\ Head(queue) \in Closures /\ Head(queue).what = what
         /\ queue # << >> /\ queue' = Tail(queue) /\ queue' \in Seq(Closures)
         /\ ~compiling
         /\ Head(queue) = queue[1]
         /\ \A i \in DOMAIN queue \ {1} : i - 1 \in DOMAIN queue' /\ queue[i] = queue'[i - 1]
  <1> DEFINE n == Len(queue)
             t == Tail(queue)
  <1>1. queue \in Seq(Closures) /\ queue # << >> /\ queue' = t
    BY DEF TypeOK, Running
  <1>2. /\ Head(queue) \in Closures /\ Head(queue) = queue[1]
        /\ t \in Seq(Closures) /\ Len(t) = n - 1
        /\ \A i \in 1 .. n - 1 : t[i] = queue[i + 1]
    BY <1>1, HeadTailProperties
  <1>3. n \in Nat /\ DOMAIN queue = 1 .. n /\ DOMAIN t = 1 .. n - 1
    BY <1>1, <1>2, LenProperties
  <1> HIDE DEF n, t
  <1>4. ASSUME NEW i \in DOMAIN queue \ {1}
        PROVE  i - 1 \in DOMAIN t /\ queue[i] = t[i - 1]
    <2>1. i - 1 \in 1 .. n - 1 /\ (i - 1) + 1 = i
      BY <1>3
    <2> QED BY <1>2, <1>3, <2>1
  <1> QED BY <1>1, <1>2, <1>4 DEF Running

\* One closure is run, and the rest still runs.
LEMMA RunningRuns ==
  ASSUME TypeOK, NEW what, Running(what), NEW a, NEW m, Runs(queue, a, m)
  PROVE  \E c \in BOOLEAN : Reads(Head(queue), a, c) /\ Runs(queue', c, m)
  <1>1. queue \in Seq(Closures)
    BY DEF TypeOK
  <1>2. queue # << >> /\ queue' = Tail(queue)
    BY RunningFacts
  <1>3. \E c \in BOOLEAN : Reads(Head(queue), a, c) /\ Runs(Tail(queue), c, m)
    BY <1>1, <1>2, RunsHead, Zenon
  <1> QED BY <1>2, <1>3, Zenon

LEMMA PostFacts ==
  ASSUME TypeOK, Post
  PROVE  /\ Head(posting) \in Closures
         /\ posting' = Tail(posting) /\ posting' \in Seq(Closures)
         /\ queue' = Append(queue, Head(posting)) /\ queue' \in Seq(Closures)
         /\ \A i \in DOMAIN queue : i \in DOMAIN queue' /\ queue'[i] = queue[i]
  <1>1. /\ posting \in Seq(Closures) /\ posting # << >> /\ queue \in Seq(Closures)
        /\ posting' = Tail(posting) /\ queue' = Append(queue, Head(posting))
    BY DEF TypeOK, Post
  <1>2. Head(posting) \in Closures /\ Tail(posting) \in Seq(Closures)
    BY <1>1, HeadTailProperties
  <1>3. /\ Append(queue, Head(posting)) \in Seq(Closures)
        /\ Len(Append(queue, Head(posting))) = Len(queue) + 1
        /\ \A i \in 1 .. Len(queue) : Append(queue, Head(posting))[i] = queue[i]
    BY <1>1, <1>2, AppendProperties
  <1>4. /\ Len(queue) \in Nat /\ DOMAIN queue = 1 .. Len(queue)
        /\ DOMAIN Append(queue, Head(posting)) = 1 .. Len(queue) + 1
    BY <1>1, <1>3, LenProperties
  <1> QED BY <1>1, <1>2, <1>3, <1>4

\* layout_change_callback posts the keymap at the end.
LEMMA SentFacts ==
  ASSUME TypeOK, queue' = Append(queue, SendKeymap)
  PROVE  /\ queue' \in Seq(Closures)
         /\ \E i \in DOMAIN queue' : queue'[i].what = "keymap"
  <1>1. queue \in Seq(Closures) /\ SendKeymap \in Closures /\ SendKeymap.what = "keymap"
    BY ClosureTypes DEF TypeOK, SendKeymap
  <1>2. /\ queue' \in Seq(Closures) /\ Len(queue') = Len(queue) + 1
        /\ queue'[Len(queue) + 1] = SendKeymap
    BY <1>1, AppendProperties
  <1>3. DOMAIN queue' = 1 .. Len(queue) + 1 /\ Len(queue) \in Nat
    BY <1>1, <1>2, LenProperties
  <1> QED BY <1>1, <1>2, <1>3

\* What a stroke posts.
LEMMA StrikeFacts ==
  ASSUME TypeOK, NEW stroke \in CodeStrokes \cup CharacterStrokes, Strike(stroke)
  PROVE  posting' \in Seq(Closures) /\ Runs(posting', FALSE, FALSE)
  <1> DEFINE change == IF stroke.layout # layout THEN <<ToLayout(stroke.layout)>> ELSE << >>
  <1>1. change \in Seq(Closures) /\ Runs(change, FALSE, FALSE)
    <2>1. /\ ToLayout(stroke.layout) \in Closures
          /\ Reads(ToLayout(stroke.layout), FALSE, FALSE)
      BY StrokeRuns, ClosureTypes DEF Reads, ToLayout
    <2> QED BY <2>1, RunsOne, RunsEmpty
  <1>2. posting' = change \o KeyInShift(stroke)
    BY DEF Strike
  <1> HIDE DEF change
  <1> QED BY <1>1, <1>2, StrokeRuns, RunsConcat

LEMMA KeyboardNext == KeyboardInv /\ [Next]_vars => KeyboardInv'
  <1> SUFFICES ASSUME KeyboardInv, [Next]_vars PROVE KeyboardInv'
    OBVIOUS
  <1> USE DEF KeyboardInv
  <1>0. PICK a \in BOOLEAN, m \in BOOLEAN :
          /\ Runs(queue, a, m) /\ Runs(posting, m, FALSE)
          /\ Listening => (a = TRUE <=> toplevel \in shifted)
    BY DEF ShiftInv
  <1>1. ASSUME NEW stroke \in CodeStrokes \cup CharacterStrokes, Strike(stroke)
        PROVE  KeyboardInv'
    <2>1. /\ posting = << >> /\ strokes' = strokes + 1 /\ strokes < MaxStrokes
          /\ UNCHANGED <<queue, layout, compiling, keymap, toplevel, known, shifted, last, crashed>>
      BY <1>1 DEF Strike, clientVars
    <2>2. posting' \in Seq(Closures) /\ Runs(posting', FALSE, FALSE)
      BY <1>1, StrikeFacts
    <2>3. strokes' \in 0 .. MaxStrokes /\ strokes' # 0
      BY <2>1, KeyboardAssumption DEF TypeOK
    <2>4. TypeOK'
      BY <2>1, <2>2, <2>3 DEF TypeOK
    <2>5. ShiftInv'
      <3>1. m = FALSE
        BY <1>0, <2>1, RunsNothing
      <3>2. Listening' = Listening
        BY <2>1 DEF Listening
      <3> QED BY <1>0, <2>1, <2>2, <3>1, <3>2 DEF ShiftInv
    <2>6. HeldInToplevel' /\ BeforeKeys' /\ KeymapSent' /\ ShiftAsMeant'
      BY <2>1, <2>3 DEF HeldInToplevel, BeforeKeys, KeymapSent, ShiftAsMeant, Listening
    <2> QED BY <2>4, <2>5, <2>6
  <1>2. ASSUME Post PROVE KeyboardInv'
    <2>1. /\ posting # << >>
          /\ UNCHANGED <<strokes, layout, compiling, keymap, toplevel, known, shifted, last, crashed>>
      BY <1>2 DEF Post, clientVars
    <2>2. TypeOK'
      BY <1>2, <2>1, PostFacts DEF TypeOK
    <2>3. ShiftInv'
      <3>1. PICK c \in BOOLEAN : Reads(Head(posting), m, c) /\ Runs(Tail(posting), c, FALSE)
        <4>1. posting \in Seq(Closures)
          BY DEF TypeOK
        <4> QED BY <1>0, <2>1, <4>1, RunsHead, Zenon
      <3>2. Runs(Append(queue, Head(posting)), a, c)
        BY <1>0, <1>2, <3>1, PostFacts, RunsAppend DEF TypeOK
      <3>3. Runs(queue', a, c) /\ Runs(posting', c, FALSE)
        BY <1>2, <3>1, <3>2, PostFacts
      <3>4. Listening' = Listening
        BY <2>1 DEF Listening
      <3> QED BY <1>0, <2>1, <3>3, <3>4 DEF ShiftInv
    <2>4. BeforeKeys'
      BY <2>1 DEF BeforeKeys
    <2>5. KeymapSent'
      <3>1. (\E i \in DOMAIN queue : queue[i].what = "keymap")
            => \E i \in DOMAIN queue' : queue'[i].what = "keymap"
        BY <1>2, PostFacts
      <3> QED BY <2>1, <3>1 DEF KeymapSent, Listening
    <2> QED BY <2>1, <2>2, <2>3, <2>4, <2>5 DEF HeldInToplevel, ShiftAsMeant
  <1>3. ASSUME ChangeLayout PROVE KeyboardInv'
    <2>1. /\ Running("layout") /\ layout' = Head(queue).layout /\ compiling' = TRUE /\ keymap' = None
          /\ UNCHANGED <<strokes, posting, toplevel, known, shifted, last, crashed>>
      BY <1>3 DEF ChangeLayout, clientVars
    <2>2. TypeOK'
      <3>1. layout' \in Layouts
        BY <2>1, RunningFacts DEF Closures
      <3> QED BY <2>1, <3>1, RunningFacts DEF TypeOK
    <2>3. ShiftInv'
      <3>1. PICK c \in BOOLEAN : Reads(Head(queue), a, c) /\ Runs(queue', c, m)
        BY <1>0, <2>1, RunningRuns, Zenon
      <3>2. c = a
        BY <2>1, <3>1, RunningFacts DEF Reads
      <3>3. Listening' = Listening
        BY <2>1 DEF Listening
      <3> QED BY <1>0, <2>1, <3>1, <3>2, <3>3 DEF ShiftInv
    <2>4. strokes' # 0
      BY <2>1, RunningFacts DEF BeforeKeys
    <2> QED
      BY <2>1, <2>2, <2>3, <2>4 DEF HeldInToplevel, BeforeKeys, KeymapSent, ShiftAsMeant
  <1>4. ASSUME Compiled PROVE KeyboardInv'
    <2>1. /\ compiling /\ ~compiling'
          /\ \/ keymap' = layout /\ queue' = Append(queue, SendKeymap)
             \/ UNCHANGED <<keymap, queue>>
          /\ UNCHANGED <<strokes, posting, layout, toplevel, known, shifted, last, crashed>>
          /\ compiling' \in BOOLEAN
      BY <1>4 DEF Compiled, clientVars
    <2>2. TypeOK'
      BY <2>1, SentFacts DEF TypeOK
    <2>3. ShiftInv'
      <3>1. Reads(SendKeymap, m, m) /\ SendKeymap \in Closures
        BY ClosureTypes DEF Reads, SendKeymap
      <3>2. Runs(queue', a, m)
        BY <1>0, <2>1, <3>1, RunsAppend DEF TypeOK
      <3>3. Listening' = Listening
        BY <2>1 DEF Listening
      <3> QED BY <1>0, <2>1, <3>2, <3>3 DEF ShiftInv
    <2>4. strokes' # 0
      BY <2>1 DEF BeforeKeys
    <2>5. KeymapSent'
      BY <2>1, SentFacts DEF KeymapSent, TypeOK
    <2> QED
      BY <2>1, <2>2, <2>3, <2>4, <2>5 DEF HeldInToplevel, BeforeKeys, ShiftAsMeant
  <1>5. ASSUME KeymapChanged PROVE KeyboardInv'
    <2>1. /\ Running("keymap")
          /\ UNCHANGED <<strokes, posting, layout, compiling, keymap, toplevel, shifted, last>>
      BY <1>5 DEF KeymapChanged
    <2>2. \/ UNCHANGED <<known, crashed>> /\ ~Listening
          \/ keymap = None /\ crashed' = TRUE /\ UNCHANGED known /\ Listening
          \/ /\ keymap # None /\ Listening /\ UNCHANGED crashed
             /\ known' = [known EXCEPT ![toplevel] = keymap]
      BY <1>5 DEF KeymapChanged, Listening
    <2>3. /\ known' \in [Clients -> Layouts \cup {None}] /\ crashed' \in BOOLEAN
          /\ Listening' = Listening
          /\ Listening => known'[toplevel] = keymap \/ keymap = None
          /\ \A c \in Clients : known[c] # None => known'[c] # None
      BY <2>1, <2>2 DEF TypeOK, Listening
    <2>4. TypeOK'
      BY <2>1, <2>3, RunningFacts DEF TypeOK
    <2>5. ShiftInv'
      <3>1. PICK c \in BOOLEAN : Reads(Head(queue), a, c) /\ Runs(queue', c, m)
        BY <1>0, <2>1, RunningRuns, Zenon
      <3>2. c = a
        BY <2>1, <3>1, RunningFacts DEF Reads
      <3> QED BY <1>0, <2>1, <2>3, <3>1, <3>2 DEF ShiftInv
    <2>6. strokes' # 0
      BY <2>1, RunningFacts DEF BeforeKeys
    <2>7. HeldInToplevel'
      BY <2>1, <2>3 DEF HeldInToplevel, TypeOK
    <2>8. KeymapSent'
      BY <2>1, <2>3 DEF KeymapSent
    <2> QED
      BY <2>1, <2>4, <2>5, <2>6, <2>7, <2>8 DEF BeforeKeys, ShiftAsMeant
  <1>6. ASSUME ShiftKey PROVE KeyboardInv'
    <2>1. /\ Running("shift")
          /\ UNCHANGED <<strokes, posting, layout, compiling, keymap, toplevel, known, last, crashed>>
          /\ ~Listening => shifted' = shifted
          /\ Listening => shifted' = IF Head(queue).down THEN shifted \cup {toplevel}
                                                         ELSE shifted \ {toplevel}
      BY <1>6 DEF ShiftKey, Listening
    <2>2. TypeOK'
      <3>1. shifted' \subseteq Clients
        BY <2>1 DEF TypeOK, Listening
      <3> QED BY <2>1, <3>1, RunningFacts DEF TypeOK
    <2>3. ShiftInv'
      <3>1. PICK c \in BOOLEAN : Reads(Head(queue), a, c) /\ Runs(queue', c, m)
        BY <1>0, <2>1, RunningRuns, Zenon
      <3>2. Head(queue).what = "shift"
        BY <2>1, RunningFacts
      <3>3. c = Head(queue).down
        BY <3>1, <3>2 DEF Reads
      <3>4. Listening' = Listening /\ toplevel' = toplevel /\ posting' = posting
        BY <2>1 DEF Listening
      <3>5. Listening => (c = TRUE <=> toplevel \in shifted')
        BY <2>1, <3>3
      <3> QED BY <1>0, <3>1, <3>4, <3>5 DEF ShiftInv
    <2>4. strokes' # 0
      BY <2>1, RunningFacts DEF BeforeKeys
    <2>5. HeldInToplevel'
      BY <2>1 DEF HeldInToplevel, Listening
    <2>6. KeymapSent'
      <3>1. (\E i \in DOMAIN queue : queue[i].what = "keymap")
            => \E i \in DOMAIN queue' : queue'[i].what = "keymap"
        BY <2>1, RunningFacts
      <3> QED BY <2>1, <3>1 DEF KeymapSent, Listening
    <2> QED
      BY <2>1, <2>2, <2>3, <2>4, <2>5, <2>6 DEF BeforeKeys, ShiftAsMeant
  <1>7. ASSUME OtherKey PROVE KeyboardInv'
    <2> DEFINE pressed == [layout |-> Head(queue).layout, read |-> known[toplevel],
                           shift |-> Head(queue).shift, shifted |-> toplevel \in shifted]
    <2>1. /\ Running("key")
          /\ UNCHANGED <<strokes, posting, layout, compiling, keymap, toplevel, known, shifted, crashed>>
          /\ (last' = last \/ (Listening /\ last' = pressed))
      BY <1>7 DEF OtherKey, Listening
    <2>2. Head(queue) \in Closures /\ Head(queue).what = "key"
      BY <2>1, RunningFacts
    <2>3. TypeOK'
      <3>1. last' # None => {last'.layout, last'.read} \subseteq Layouts
        BY <2>1, <2>2 DEF TypeOK, Closures, Listening
      <3> QED BY <2>1, <3>1, RunningFacts DEF TypeOK
    <2>4. PICK c \in BOOLEAN : Reads(Head(queue), a, c) /\ Runs(queue', c, m)
      BY <1>0, <2>1, RunningRuns, Zenon
    <2>5. c = a /\ Head(queue).shift = a
      BY <2>2, <2>4 DEF Reads
    <2>6. ShiftInv'
      <3>1. Listening' = Listening
        BY <2>1 DEF Listening
      <3> QED BY <1>0, <2>1, <2>4, <2>5, <3>1 DEF ShiftInv
    <2>7. ShiftAsMeant'
      <3>1. CASE last' = last
        BY <3>1 DEF ShiftAsMeant
      <3>2. CASE Listening /\ last' = pressed
        <4>1. last'.shift = a /\ last'.shifted = (toplevel \in shifted)
          BY <2>5, <3>2
        <4>2. a = (toplevel \in shifted)
          <5>1. CASE a = TRUE
            BY <1>0, <3>2, <5>1, Zenon
          <5>2. CASE a = FALSE
            <6>1. toplevel \notin shifted
              BY <1>0, <3>2, <5>2
            <6>2. (toplevel \in shifted) = FALSE
              BY <6>1
            <6> QED BY <5>2, <6>2
          <5> QED BY <5>1, <5>2, Zenon
        <4> QED BY <4>1, <4>2, Zenon DEF ShiftAsMeant
      <3> QED BY <2>1, <3>1, <3>2
    <2>8. strokes' # 0
      BY <2>1, RunningFacts DEF BeforeKeys
    <2>9. KeymapSent'
      <3>1. (\E i \in DOMAIN queue : queue[i].what = "keymap")
            => \E i \in DOMAIN queue' : queue'[i].what = "keymap"
        BY <2>1, RunningFacts
      <3> QED BY <2>1, <3>1 DEF KeymapSent, Listening
    <2> QED
      BY <2>1, <2>3, <2>6, <2>7, <2>8, <2>9 DEF BeforeKeys, HeldInToplevel
  <1>8. ASSUME NEW c \in Clients, GetKeyboard(c), BetweenKeys \/ c # toplevel PROVE KeyboardInv'
    <2>1. /\ ~compiling /\ shifted' = shifted \ {c}
          /\ UNCHANGED <<strokes, posting, queue, layout, compiling, keymap, toplevel, last>>
          /\ \/ keymap = None /\ crashed' = TRUE /\ UNCHANGED known
             \/ keymap # None /\ UNCHANGED crashed /\ known' = [known EXCEPT ![c] = keymap]
      BY <1>8 DEF GetKeyboard
    <2>2. /\ known' \in [Clients -> Layouts \cup {None}] /\ crashed' \in BOOLEAN
          /\ \A d \in Clients \ {c} : known'[d] = known[d]
          /\ known'[c] \in {keymap, known[c]}
      BY <2>1 DEF TypeOK
    <2>3. TypeOK'
      BY <2>1, <2>2 DEF TypeOK
    <2>4. ShiftInv'
      <3>1. CASE c = toplevel
        <4>1. posting = << >> /\ \A i \in DOMAIN queue : queue[i].what \in {"layout", "keymap"}
          BY <1>8, <3>1 DEF BetweenKeys
        <4>2. Runs(queue, FALSE, FALSE) /\ Runs(posting, FALSE, FALSE)
          BY <4>1, RunsQuiet, RunsEmpty DEF TypeOK
        <4>3. toplevel' \notin shifted'
          BY <2>1, <3>1
        <4> QED BY <2>1, <4>2, <4>3 DEF ShiftInv
      <3>2. CASE c # toplevel
        <4>1. Listening' = Listening
          BY <2>1, <2>2, <3>2 DEF Listening, TypeOK
        <4>2. toplevel \in shifted' <=> toplevel \in shifted
          BY <2>1, <3>2
        <4>3. Listening' => (a = TRUE <=> toplevel' \in shifted')
          BY <1>0, <2>1, <4>1, <4>2
        <4> QED BY <1>0, <2>1, <4>3 DEF ShiftInv
      <3> QED BY <3>1, <3>2
    <2>5. HeldInToplevel'
      BY <2>1, <2>2 DEF HeldInToplevel, TypeOK
    <2>6. BeforeKeys'
      BY <2>1, <2>2 DEF BeforeKeys
    <2>7. KeymapSent'
      BY <2>1, <2>2 DEF KeymapSent, Listening, TypeOK
    <2> QED BY <2>1, <2>3, <2>4, <2>5, <2>6, <2>7 DEF ShiftAsMeant
  <1>9. ASSUME NEW c \in Clients, EarlyToplevel(c) PROVE KeyboardInv'
    <2>1. /\ strokes = 0 /\ toplevel = None /\ toplevel' = c
          /\ UNCHANGED <<strokes, posting, queue, layout, compiling, keymap, known, shifted, last, crashed>>
      BY <1>9 DEF EarlyToplevel, SetToplevel
    <2>2. /\ posting = << >> /\ queue = << >> /\ keymap = layout
          /\ known[c] \in {layout, None} /\ shifted = {}
      BY <2>1, KeyboardAssumption DEF BeforeKeys, HeldInToplevel, TypeOK
    <2>3. TypeOK'
      BY <2>1 DEF TypeOK
    <2>4. ShiftInv'
      BY <2>1, <2>2, RunsEmpty DEF ShiftInv
    <2> QED
      BY <2>1, <2>2, <2>3, <2>4
      DEF HeldInToplevel, BeforeKeys, KeymapSent, ShiftAsMeant, Listening
  <1>10. ASSUME NEW c \in Clients, ReleaseKeyboard(c) PROVE KeyboardInv'
    <2>1. /\ ~compiling
          /\ known' = [known EXCEPT ![c] = None] /\ shifted' = shifted \ {c}
          /\ UNCHANGED <<strokes, posting, queue, layout, compiling, keymap, toplevel, last, crashed>>
      BY <1>10 DEF ReleaseKeyboard
    <2>2. /\ known' \in [Clients -> Layouts \cup {None}] /\ known'[c] = None
          /\ \A d \in Clients \ {c} : known'[d] = known[d]
      BY <2>1 DEF TypeOK
    <2>3. TypeOK'
      BY <2>1, <2>2 DEF TypeOK
    <2>4. ShiftInv'
      <3>1. Listening' => Listening /\ toplevel # c
        BY <2>1, <2>2 DEF Listening, TypeOK
      <3>2. Listening' => (a = TRUE <=> toplevel' \in shifted')
        BY <1>0, <2>1, <3>1
      <3> QED BY <1>0, <2>1, <3>2 DEF ShiftInv
    <2>5. HeldInToplevel'
      BY <2>1, <2>2 DEF HeldInToplevel, TypeOK
    <2>6. BeforeKeys'
      BY <2>1, <2>2 DEF BeforeKeys
    <2>7. KeymapSent'
      BY <2>1, <2>2 DEF KeymapSent, Listening, TypeOK
    <2> QED BY <2>1, <2>3, <2>4, <2>5, <2>6, <2>7 DEF ShiftAsMeant
  <1>11. CASE UNCHANGED vars
    <2>1. UNCHANGED <<strokes, posting, queue, layout, compiling, keymap, toplevel, known,
                      shifted, last, crashed>>
      BY <1>11 DEF vars, clientVars
    <2>2. Listening' = Listening
      BY <2>1 DEF Listening
    <2>3. TypeOK' /\ HeldInToplevel' /\ ShiftAsMeant'
      BY <2>1 DEF TypeOK, HeldInToplevel, ShiftAsMeant
    <2>4. BeforeKeys' /\ KeymapSent'
      BY <2>1, <2>2 DEF BeforeKeys, KeymapSent
    <2>5. ShiftInv'
      BY <1>0, <2>1, <2>2 DEF ShiftInv
    <2> QED BY <2>3, <2>4, <2>5
  <1> HIDE DEF KeyboardInv
  <1> QED
    BY <1>1, <1>2, <1>3, <1>4, <1>5, <1>6, <1>7, <1>8, <1>9, <1>10, <1>11
    DEF Next, Typing

LEMMA KeyboardInvariant == Spec => []KeyboardInv
  <1>1. Init => KeyboardInv
    BY KeyboardInit
  <1>2. KeyboardInv /\ [Next]_vars => KeyboardInv'
    BY KeyboardNext
  <1> QED BY <1>1, <1>2, PTL DEF Spec

\* The closures that keyboardKey and layout_change_callback post, and the layouts
\* and keymaps they change, keep their types.
THEOREM KeyboardTypeCorrect == Spec => []TypeOK
  <1>1. KeyboardInv => TypeOK
    BY DEF KeyboardInv
  <1> QED BY <1>1, KeyboardInvariant, PTL

\* A key that keyboardKey meant with shift is pressed with shift, and no other,
\* however many keys, layout changes and keymaps are posted at the time.
THEOREM ShiftMeant == Spec => []ShiftAsMeant
  <1>1. KeyboardInv => ShiftAsMeant
    BY DEF KeyboardInv
  <1> QED BY <1>1, KeyboardInvariant, PTL

\* No stroke leaves shift pressed in the client.
THEOREM ShiftLetGo == Spec => []ShiftReleased
  <1>1. KeyboardInv => ShiftReleased
    <2> SUFFICES ASSUME KeyboardInv, posting = << >>, queue = << >> PROVE shifted = {}
      BY DEF ShiftReleased
    <2>1. PICK a \in BOOLEAN, m \in BOOLEAN :
            /\ Runs(queue, a, m) /\ Runs(posting, m, FALSE)
            /\ Listening => (a = TRUE <=> toplevel \in shifted)
      BY DEF KeyboardInv, ShiftInv
    <2>2. a = FALSE
      BY <2>1, RunsNothing
    <2>3. Listening => toplevel \notin shifted
      BY <2>1, <2>2
    <2>4. None \notin shifted
      BY KeyboardAssumption DEF KeyboardInv, TypeOK
    <2> QED BY <2>3, <2>4 DEF KeyboardInv, HeldInToplevel, Listening
  <1> QED BY <1>1, KeyboardInvariant, PTL

\* When the queue is empty the toplevel's client has been sent the keymap of the
\* layout keyboardKey compares with, unless that layout has none.
THEOREM KeymapArrives == Spec => []KeymapSettles
  <1>1. KeyboardInv => KeymapSettles
    BY DEF KeyboardInv, KeymapSent, KeymapSettles, Listening
  <1> QED BY <1>1, KeyboardInvariant, PTL

-----------------------------------------------------------------------------
(* The three machines together *)

pathVars == <<vars, keycodesVars, stateVars>>

\* A step of one is a stutter of the others.
LEMMA OneAtATime ==
  [KeyPathNext]_pathVars =>
    [Next]_vars /\ [KeycodesNext]_keycodesVars /\ [StateNext]_stateVars
  BY DEF KeyPathNext, pathVars

\* The run that interleaves the three machines gives each one its own
\* behaviours: what is proved of one holds in the run.
THEOREM PathImplementsParts == KeyPathSpec => Spec /\ KeycodesSpec /\ StateSpec
  <1>1. KeyPathInit => Init /\ KeycodesInit /\ StateInit
    BY DEF KeyPathInit
  <1> QED
    BY <1>1, OneAtATime, PTL DEF KeyPathSpec, Spec, KeycodesSpec, StateSpec, pathVars

\* The variables of a key's whole path keep their types.
THEOREM KeyPathTypes == KeyPathSpec => []KeyPathTypeOK
  <1>1. TypeOK /\ KeycodesTypeOK /\ StateTypeOK => KeyPathTypeOK
    BY DEF KeyPathTypeOK
  <1> QED
    BY <1>1, PathImplementsParts, KeyboardTypeCorrect, KeycodesTypeCorrect,
       StateTypeCorrect, PTL
=============================================================================
