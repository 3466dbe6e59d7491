----------------------------- MODULE XkbKeycodes -----------------------------
(***************************************************************************)
(* The keycodes section of a keymap: key names, aliases and indicators,    *)
(* gathered from a file and the files it includes                          *)
(* (libxkbcommon/xkbcommon/src/xkbcomp/keycodes.c).                        *)
(*                                                                         *)
(* frames are the KeyNamesInfos at work, the innermost last: a file that   *)
(* is read, the include statement in it, the file that statement is at,    *)
(* and so on.  A file is any sequence of statements.  One MergeIncluded    *)
(* takes a step for each key and each indicator (merging).  The arrays     *)
(* always reach up to max_key_code, and num_led_names is the last          *)
(* indicator that has a name; neither is kept.  More than 10 errors are    *)
(* counted as 11.                                                          *)
(***************************************************************************)
EXTENDS Naturals, Sequences, FiniteSets

CONSTANTS
  Names,          \* the atoms that name keys, aliases and indicators
  NoName,         \* XKB_ATOM_NONE
  MaxKeycode,     \* XKB_KEYCODE_MAX
  MaxLeds,        \* XKB_MAX_LEDS
  MaxDepth,       \* bound: files within files
  MaxStatements   \* bound: statements in all the files

ASSUME KeycodesAssumption ==
  /\ NoName \notin Names
  /\ {MaxKeycode, MaxLeds, MaxDepth, MaxStatements} \subseteq Nat

VARIABLES
  frames,      \* of [kind, merge, names]
  merging,     \* the next key or indicator of the innermost frame to be merged
  statements,  \* how many have been read
  status,      \* "open", "compiled" or "failed"
  section      \* what the keymap has got

keycodesVars == <<frames, merging, statements, status, section>>

outcome == <<status, section>>

Keycodes  == 0 .. MaxKeycode
NoKeycode == MaxKeycode + 1        \* XKB_KEYCODE_INVALID
Leds      == 1 .. MaxLeds
Merges    == {"default", "augment", "override", "replace"}
NoAlias   == [real |-> NoName, merge |-> "default"]
NoLed     == [name |-> NoName, merge |-> "default"]

\* InitKeyNamesInfo
NoNames ==
  [keys |-> [kc \in Keycodes |-> NoName], min |-> NoKeycode, max |-> 0,
   aliases |-> [n \in Names |-> NoAlias], leds |-> [l \in Leds |-> NoLed], errors |-> 0]

Frame(kind, merge) == [kind |-> kind, merge |-> merge, names |-> NoNames]

AtMost11(n) == IF n > 11 THEN 11 ELSE n
Failed(info, n) == [info EXCEPT !.errors = AtMost11(@ + n)]

-----------------------------------------------------------------------------
(* One name *)

Widen(info, kc) ==
  [info EXCEPT !.min = IF kc < @ THEN kc ELSE @, !.max = IF kc > @ THEN kc ELSE @]

FindKeyByName(info, keys, name) ==
  LET found == {kc \in info.min .. info.max : keys[kc] = name}
  IN  IF found = {} THEN NoKeycode
      ELSE CHOOSE kc \in found : \A other \in found : kc <= other

\* Mistake: the key that had the name keeps it.
AddKeyNameTwice(info, kc, name, merge) ==
  LET wide == Widen(info, kc) IN
  IF wide.keys[kc] = name \/ (wide.keys[kc] # NoName /\ merge = "augment") THEN wide
  ELSE [wide EXCEPT !.keys[kc] = name]

\* Mistake: augment replaces the name of a keycode.
AddKeyNameAlways(info, kc, name, merge) ==
  LET wide    == Widen(info, kc)
      cleared == [wide.keys EXCEPT ![kc] = NoName]
      old_kc  == FindKeyByName(wide, cleared, name)
  IN  IF old_kc = NoKeycode THEN [wide EXCEPT !.keys = [cleared EXCEPT ![kc] = name]]
      ELSE IF merge = "override"
      THEN [wide EXCEPT !.keys = [cleared EXCEPT ![old_kc] = NoName, ![kc] = name]]
      ELSE [wide EXCEPT !.keys = cleared]

\* Mistake: the first key of a name keeps it whatever the merge mode.
AddKeyNameFirst(info, kc, name, merge) ==
  LET wide    == Widen(info, kc)
      cleared == [wide.keys EXCEPT ![kc] = NoName]
  IN  IF wide.keys[kc] = name \/ (wide.keys[kc] # NoName /\ merge = "augment") THEN wide
      ELSE IF FindKeyByName(wide, cleared, name) = NoKeycode
      THEN [wide EXCEPT !.keys = [cleared EXCEPT ![kc] = name]]
      ELSE [wide EXCEPT !.keys = cleared]

\* The keycode may have a name already, and the name a keycode.  Unless it
\* overrides, a name that is taken leaves this keycode with none at all.
AddKeyName(info, kc, name, merge) ==
  LET wide    == Widen(info, kc)
      cleared == [wide.keys EXCEPT ![kc] = NoName]
      old_kc  == FindKeyByName(wide, cleared, name)
  IN  IF wide.keys[kc] = name \/ (wide.keys[kc] # NoName /\ merge = "augment") THEN wide
      ELSE IF old_kc = NoKeycode THEN [wide EXCEPT !.keys = [cleared EXCEPT ![kc] = name]]
      ELSE IF merge = "override"
      THEN [wide EXCEPT !.keys = [cleared EXCEPT ![old_kc] = NoName, ![kc] = name]]
      ELSE [wide EXCEPT !.keys = cleared]

\* HandleAliasDef
AddAlias(aliases, alias, real, merge) ==
  [aliases EXCEPT ![alias] =
     [real |-> IF @ # NoAlias /\ merge = "augment" THEN @.real ELSE real, merge |-> merge]]

\* An indicator that has the name already stays where it is, even if it is replaced.
AddLedName(leds, led, idx, merge) ==
  LET same    == {i \in Leds : leds[i].name = led.name}
      replace == merge \in {"replace", "override"}
  IN  IF idx \in same THEN leds
      ELSE IF same # {} THEN IF replace THEN [i \in Leds |-> IF i \in same THEN led ELSE leds[i]]
                             ELSE leds
      ELSE IF leds[idx] = NoLed \/ replace THEN [leds EXCEPT ![idx] = led]
      ELSE leds

-----------------------------------------------------------------------------
KeycodesInit ==
  /\ frames = <<Frame("file", "override")>>
  /\ merging = [what |-> "nothing", next |-> 0]
  /\ statements = 0
  /\ status = "open" /\ section = << >>

Depth == Len(frames)
Top   == frames[Depth]
Below == frames[Depth - 1]

Idle == status = "open" /\ merging.what = "nothing"

\* A statement of the file at work; with more than 10 errors it is abandoned.
Statement ==
  /\ Idle /\ Top.kind = "file" /\ Top.names.errors <= 10
  /\ statements < MaxStatements /\ statements' = statements + 1

TopBecomes(info) == frames' = [frames EXCEPT ![Depth].names = info]

\* A file is always read to override; replace means no more than that here.
KeycodeDef(kc, name, merge) ==
  /\ Statement
  /\ TopBecomes(AddKeyName(Top.names, kc, name, IF merge = "augment" THEN merge ELSE "override"))
  /\ UNCHANGED <<merging, outcome>>

\* The statement's own merge mode is not looked at.
AliasDef(alias, real) ==
  /\ Statement
  /\ TopBecomes([Top.names EXCEPT !.aliases = AddAlias(@, alias, real, "override")])
  /\ UNCHANGED <<merging, outcome>>

LedNameDef(idx, name) ==
  /\ Statement
  /\ TopBecomes([Top.names EXCEPT
       !.leds = AddLedName(@, [name |-> name, merge |-> "override"], idx, "override")])
  /\ UNCHANGED <<merging, outcome>>

\* A statement in error; one about an indicator counts twice.
BadStatement(n) ==
  /\ Statement /\ TopBecomes(Failed(Top.names, n)) /\ UNCHANGED <<merging, outcome>>

-----------------------------------------------------------------------------
(* HandleIncludeKeycodes *)

Include(merge) ==
  /\ Statement /\ Depth + 2 <= 2 * MaxDepth + 1
  /\ frames' = frames \o <<Frame("include", merge), Frame("file", merge)>>
  /\ UNCHANGED <<merging, outcome>>

\* "a+b|c": the next file of the statement.
NextFile(merge) ==
  /\ Idle /\ Top.kind = "include"
  /\ statements < MaxStatements /\ statements' = statements + 1
  /\ frames' = Append(frames, Frame("file", merge))
  /\ UNCHANGED <<merging, outcome>>

\* A file that is not there: the whole statement is given up.
FileMissing ==
  /\ Idle /\ Top.kind = "file" /\ Depth > 1 /\ Top.names = NoNames
  /\ frames' = [SubSeq(frames, 1, Depth - 2) EXCEPT ![Depth - 2].names = Failed(@, 11)]
  /\ UNCHANGED <<merging, statements, outcome>>

\* MergeIncludedKeycodes of the innermost frame begins.
StartMerge ==
  /\ Idle /\ Depth > 1
  /\ merging' = [what |-> "keys", next |-> Top.names.min]
  /\ UNCHANGED <<frames, statements, outcome>>

\* HandleIncludeKeycodes reports the errors so far as one more of the file.
AfterMerge(info) ==
  IF Top.kind = "include" /\ info.errors > 0 THEN Failed(info, 1) ELSE info

MergeDone(info) ==
  /\ frames' = [SubSeq(frames, 1, Depth - 1) EXCEPT ![Depth - 1].names = AfterMerge(info)]
  /\ merging' = [what |-> "nothing", next |-> 0]
  /\ UNCHANGED <<statements, outcome>>

\* Nothing is taken from a file in error but its errors.
MergeErrors ==
  /\ merging.what = "keys" /\ Top.names.errors > 0
  /\ MergeDone(Failed(Below.names, Top.names.errors))

MergeKey ==
  /\ merging.what = "keys" /\ Top.names.errors = 0
  /\ Below.names.min # NoKeycode /\ merging.next <= Top.names.max
  /\ LET name == Top.names.keys[merging.next] IN
     frames' = IF name = NoName THEN frames
               ELSE [frames EXCEPT ![Depth - 1].names = AddKeyName(@, merging.next, name, Top.merge)]
  /\ merging' = [merging EXCEPT !.next = @ + 1]
  /\ UNCHANGED <<statements, outcome>>

EffectiveMerge(own) == IF Top.merge = "default" THEN own ELSE Top.merge

MergedAliases ==
  IF \A n \in Names : Below.names.aliases[n] = NoAlias THEN Top.names.aliases
  ELSE [n \in Names |->
          LET alias == Top.names.aliases[n] IN
          IF alias = NoAlias THEN Below.names.aliases[n]
          ELSE AddAlias(Below.names.aliases, n, alias.real, EffectiveMerge(alias.merge))[n]]

\* The keys are done, or taken all at once if there were none; then the aliases.
MergeAliases ==
  /\ merging.what = "keys" /\ Top.names.errors = 0
  /\ Below.names.min = NoKeycode \/ merging.next > Top.names.max
  /\ frames' = [frames EXCEPT ![Depth - 1].names =
       LET info == [Below.names EXCEPT !.aliases = MergedAliases] IN
       IF Below.names.min # NoKeycode THEN info
       ELSE [info EXCEPT !.keys = Top.names.keys, !.min = Top.names.min, !.max = Top.names.max]]
  /\ merging' = [what |-> "leds", next |-> 1]
  /\ UNCHANGED <<statements, outcome>>

NoLeds(info) == \A l \in Leds : info.leds[l] = NoLed

MergeLed ==
  /\ merging.what = "leds" /\ ~NoLeds(Below.names) /\ merging.next \in Leds
  /\ LET led   == Top.names.leds[merging.next]
         merge == EffectiveMerge(led.merge)
     IN  frames' = IF led = NoLed THEN frames
                   ELSE [frames EXCEPT ![Depth - 1].names.leds =
                           AddLedName(@, [led EXCEPT !.merge = merge], merging.next, merge)]
  /\ merging' = [merging EXCEPT !.next = @ + 1]
  /\ UNCHANGED <<statements, outcome>>

MergeEnd ==
  /\ merging.what = "leds" /\ (NoLeds(Below.names) \/ merging.next \notin Leds)
  /\ MergeDone(IF NoLeds(Below.names) THEN [Below.names EXCEPT !.leds = Top.names.leds]
               ELSE Below.names)

-----------------------------------------------------------------------------
(* CompileKeycodes *)

\* An alias of no key, or with the name of a key, is dropped.
AliasesOf(info) ==
  LET keys == {info.keys[kc] : kc \in Keycodes} IN
  [n \in {a \in Names : a \notin keys /\ info.aliases[a].real \in keys \ {NoName}}
     |-> info.aliases[n].real]

CopyKeyNamesInfoToKeymap ==
  LET info == Top.names IN
  [keys |-> info.keys, aliases |-> AliasesOf(info),
   leds |-> [l \in Leds |-> info.leds[l].name]]

Compile ==
  /\ Idle /\ Depth = 1
  /\ IF Top.names.errors = 0
     THEN status' = "compiled" /\ section' = <<CopyKeyNamesInfoToKeymap>>
     ELSE status' = "failed" /\ UNCHANGED section
  /\ UNCHANGED <<frames, merging, statements>>

-----------------------------------------------------------------------------
ReadFile ==
  \/ \E kc \in Keycodes, n \in Names, m \in Merges : KeycodeDef(kc, n, m)
  \/ \E n, real \in Names : AliasDef(n, real)
  \/ \E l \in Leds, n \in Names : LedNameDef(l, n)
  \/ \E n \in {1, 2} : BadStatement(n)
  \/ \E m \in Merges : Include(m)

KeycodesNext ==
  \/ ReadFile
  \/ \E m \in {"override", "augment"} : NextFile(m)
  \/ FileMissing
  \/ StartMerge \/ MergeErrors \/ MergeKey \/ MergeAliases \/ MergeLed \/ MergeEnd
  \/ Compile

KeycodesSpec == KeycodesInit /\ [][KeycodesNext]_keycodesVars

-----------------------------------------------------------------------------
KeyNamesType ==
  [keys : [Keycodes -> Names \cup {NoName}], min : 0 .. NoKeycode, max : Keycodes,
   aliases : [Names -> [real : Names \cup {NoName}, merge : Merges]],
   leds : [Leds -> [name : Names \cup {NoName}, merge : Merges]], errors : 0 .. 11]

KeycodesTypeOK ==
  /\ frames \in Seq([kind : {"file", "include"}, merge : Merges, names : KeyNamesType])
  /\ Depth >= 1
  /\ merging \in [what : {"nothing", "keys", "leds"}, next : Nat]
  /\ merging.what # "nothing" => Depth > 1
  /\ statements \in 0 .. MaxStatements

\* A name is the name of one key, and the search for it, which looks between the
\* lowest and the highest keycode only, sees every key (FindKeyByName, keycodes.c:168).
KeyNamesSound ==
  \A f \in DOMAIN frames :
    LET info == frames[f].names IN
    /\ \A kc \in Keycodes : info.keys[kc] # NoName => kc \in info.min .. info.max
    /\ \A kc, other \in Keycodes :
         info.keys[kc] = info.keys[other] /\ info.keys[kc] # NoName => kc = other

\* What a file that overrides has named, it names in the result: no later key of the
\* same file takes it away again.
OverrideWins ==
  merging.what = "keys" /\ Top.merge = "override" /\ Top.names.errors = 0
    /\ Below.names.min # NoKeycode
    => \A kc \in Top.names.min .. merging.next - 1 :
         kc \in Keycodes /\ Top.names.keys[kc] # NoName
           => Below.names.keys[kc] = Top.names.keys[kc]

\* A file that augments takes no name from a key.
AugmentKeeps ==
  [][merging.what = "keys" /\ Top.merge = "augment" =>
       \A kc \in Keycodes :
         LET old == Below.names.keys[kc] IN
         old # NoName => frames'[Depth - 1].names.keys[kc] = old]_keycodesVars
=============================================================================
