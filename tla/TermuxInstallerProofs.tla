------------------------ MODULE TermuxInstallerProofs ------------------------
(***************************************************************************)
(* For any zip: one attempt at a time never leaves a broken $PREFIX.  The  *)
(* types hold for any number of attempts.                                  *)
(***************************************************************************)
EXTENDS TermuxInstaller, TLAPS

Locations == Steps \cup {"idle", "begin", "clearAgain", "dialog", "done"}

-----------------------------------------------------------------------------
(* Types *)

\* A file that is open is the entry being extracted, and is where stream says.
StreamInFiles ==
  \A t \in Threads : stream[t] # "none" =>
     pc[t] = "write" /\ entry[t] \in Entries /\ entry[t] \in files[stream[t]]

Disk ==
  /\ exists \subseteq Dirs
  /\ files \in [Dirs -> SUBSET Items] /\ whole \in [Dirs -> SUBSET Items]
  /\ \A d \in Dirs : whole[d] \subseteq files[d]
  /\ \A d \in Dirs : files[d] # {} => d \in exists

Attempts ==
  /\ pc \in [Threads -> Locations]
  /\ todo \in [Threads -> SUBSET Items]
  /\ entry \in [Threads -> Entries \cup {NoEntry}]
  /\ stream \in [Threads -> Dirs \cup {"none"}]
  /\ struck \in [Threads -> BOOLEAN]

TInv == Disk /\ Attempts /\ StreamInFiles /\ faults \in Nat

LEMMA TInvTypes == TInv => TypeOK
  BY DEF TInv, Disk, Attempts, StreamInFiles, TypeOK, Locations

LEMMA TInit == Init => TInv
  BY DEF Init, TInv, Disk, Attempts, StreamInFiles, Dirs, Items, Locations, Steps

LEMMA TNext == TInv /\ [Next]_vars => TInv'
<1> SUFFICES ASSUME TInv, [Next]_vars
             PROVE  Disk' /\ Attempts' /\ StreamInFiles' /\ (faults \in Nat)'
  BY DEF TInv
<1> USE DEF TInv, Disk, Attempts, StreamInFiles, Goto, disk
<1>1. ASSUME NEW t \in Threads, Begin(t) \/ Abort(t) \/ TryAgain(t)
      PROVE  Disk' /\ Attempts' /\ StreamInFiles' /\ (faults \in Nat)'
  <2>1. CASE Begin(t)
    <3>1. Attempts'
      BY <2>1 DEF Begin, Locations, Steps
    <3> QED
      BY <3>1, <2>1 DEF Begin
  <2>2. CASE Abort(t) \/ TryAgain(t)
    BY <2>2 DEF Abort, TryAgain, Locations
  <2> QED
    BY <1>1, <2>1, <2>2
<1>2. ASSUME NEW t \in Threads, Clear(t)
      PROVE  Disk' /\ Attempts' /\ StreamInFiles' /\ (faults \in Nat)'
  <2>1. ASSUME NEW d \in Dirs, pc[t] # "write", DeleteItem(t, d)
        PROVE  Disk' /\ Attempts' /\ StreamInFiles' /\ (faults \in Nat)'
    BY <2>1 DEF DeleteItem
  <2>2. ASSUME NEW d \in Dirs, NEW after \in Locations, pc[t] # "write",
               DeleteDirectory(t, d, after)
        PROVE  Disk' /\ Attempts' /\ StreamInFiles' /\ (faults \in Nat)'
    BY <2>2 DEF DeleteDirectory
  <2> QED
    BY <1>2, <2>1, <2>2 DEF Clear, Following, Locations, Steps, Dirs
<1>3. ASSUME NEW t \in Threads, Make(t)
      PROVE  Disk' /\ Attempts' /\ StreamInFiles' /\ (faults \in Nat)'
  BY <1>3 DEF Make, Following, Locations, Steps, Dirs
<1>4. ASSUME NEW t \in Threads, OpenEntry(t)
      PROVE  Disk' /\ Attempts' /\ StreamInFiles' /\ (faults \in Nat)'
  <2>1. PICK i \in todo[t] \cap Entries :
          /\ files' = [files EXCEPT !["staging"] = @ \cup {i}]
          /\ whole' = [whole EXCEPT !["staging"] = @ \ {i}]
          /\ entry' = [entry EXCEPT ![t] = i]
          /\ stream' = [u \in Threads |->
                          IF u = t THEN "staging"
                          ELSE IF stream[u] = "staging" /\ entry[u] = i THEN "none"
                          ELSE stream[u]]
    BY <1>4 DEF OpenEntry
  <2>2. pc[t] = "extract" /\ pc' = [pc EXCEPT ![t] = "write"]
        /\ exists' = exists \cup {"staging"} /\ UNCHANGED <<todo, struck, faults>>
    BY <1>4 DEF OpenEntry
  <2>3. Disk'
    BY <2>1, <2>2 DEF Dirs, Items
  <2>4. Attempts'
    BY <2>1, <2>2 DEF Dirs, Locations, Steps
  <2>5. StreamInFiles'
    BY <2>1, <2>2 DEF Dirs
  <2> QED
    BY <2>2, <2>3, <2>4, <2>5
<1>5. ASSUME NEW t \in Threads, CloseEntry(t)
      PROVE  Disk' /\ Attempts' /\ StreamInFiles' /\ (faults \in Nat)'
  <2>1. Disk'
    <3>1. ASSUME NEW d \in Dirs PROVE whole'[d] \subseteq files[d]
      BY <1>5 DEF CloseEntry, Dirs
    <3>2. whole' = [d \in Dirs |-> whole'[d]]
      BY <1>5 DEF CloseEntry
    <3>3. whole' \in [Dirs -> SUBSET Items]
      BY <3>1, <3>2
    <3> QED
      BY <3>1, <3>3, <1>5 DEF CloseEntry
  <2>2. Attempts'
    BY <1>5 DEF CloseEntry, Locations, Steps
  <2>3. StreamInFiles'
    BY <1>5 DEF CloseEntry
  <2> QED
    BY <1>5, <2>1, <2>2, <2>3 DEF CloseEntry
<1>6. ASSUME NEW t \in Threads, EntriesDone(t) \/ LinksDone(t)
      PROVE  Disk' /\ Attempts' /\ StreamInFiles' /\ (faults \in Nat)'
  BY <1>6 DEF EntriesDone, LinksDone, Following, Locations, Steps
<1>7. ASSUME NEW t \in Threads, Link(t)
      PROVE  Disk' /\ Attempts' /\ StreamInFiles' /\ (faults \in Nat)'
  BY <1>7 DEF Link, Locations, Steps, Dirs, Items
<1>8. ASSUME NEW t \in Threads, Rename(t)
      PROVE  Disk' /\ Attempts' /\ StreamInFiles' /\ (faults \in Nat)'
  BY <1>8 DEF Rename, Following, Locations, Steps, Dirs
<1>9. ASSUME NEW t \in Threads, Fail(t) \/ FailAgain(t)
      PROVE  Disk' /\ Attempts' /\ StreamInFiles' /\ (faults \in Nat)'
  <2>1. CASE Fail(t)
    <3>1. Attempts'
      BY <2>1 DEF Fail, Locations
    <3>2. StreamInFiles'
      BY <2>1 DEF Fail
    <3> QED
      BY <3>1, <3>2, <2>1 DEF Fail
  <2>2. CASE FailAgain(t)
    <3>1. Attempts'
      BY <2>2 DEF FailAgain, Locations
    <3> QED
      BY <3>1, <2>2 DEF FailAgain
  <2> QED
    BY <1>9, <2>1, <2>2
<1>10. CASE Kill
  BY <1>10 DEF Kill, Locations
<1>11. CASE UNCHANGED vars
  BY <1>11 DEF vars
<1> QED
  BY <1>1, <1>2, <1>3, <1>4, <1>5, <1>6, <1>7, <1>8, <1>9, <1>10, <1>11 DEF Next

\* Every variable of TermuxInstaller keeps its type, for any number of attempts
\* at once: what is whole is there, and only a file being written is open.
THEOREM TypeCorrect == Spec => []TypeOK
  BY TInit, TNext, TInvTypes, PTL DEF Spec

-----------------------------------------------------------------------------
(* One attempt at a time *)

OneAttempt == \A t, u \in Threads : t = u

Making == {"makeStaging", "makePrefix"}
Unpacking == {"extract", "write", "link", "rename"}

\* Until its rename, an attempt leaves $PREFIX empty; the dialog's second try
\* deletes nothing.
NothingInPlace(t) == pc[t] \notin {"idle", "done"} => files["prefix"] = {}

\* Its staging directory starts empty, so that no link is in its way.
CleanStart(t) ==
  /\ pc[t] \in {"clearPrefix"} \cup Making => files["staging"] = {}
  /\ pc[t] \in {"extract", "write", "link"} =>
       \A l \in Links : l \in todo[t] => l \notin files["staging"]
  /\ pc[t] \in {"makePrefix"} \cup Unpacking => "staging" \in exists

\* What it has no longer to do is in the staging directory, whole.
DoneIsWhole(t) ==
  /\ pc[t] \in Unpacking => \A i \in Items : i \notin todo[t] => i \in whole["staging"]
  /\ pc[t] \in {"clearStaging", "clearPrefix"} \cup Making => todo[t] = Items
  /\ pc[t] = "write" => stream[t] = "staging" /\ entry[t] \in Entries
  /\ pc[t] \in {"link", "rename"} => todo[t] \cap Entries = {}
  /\ pc[t] = "rename" => todo[t] = {}

Progress(t) == NothingInPlace(t) /\ CleanStart(t) /\ DoneIsWhole(t)

Outcome(t) ==
  /\ pc[t] = "done" => whole["prefix"] = Items
  /\ pc[t] = "dialog" => struck[t]

PInv == TInv /\ PrefixNotBroken /\ \A t \in Threads : Progress(t) /\ Outcome(t)

LEMMA PInit == Init => PInv
<1> SUFFICES ASSUME Init PROVE PInv
  OBVIOUS
<1>1. TInv
  BY TInit
<1>2. PrefixNotBroken
  BY DEF Init, PrefixNotBroken, Dirs
<1>3. ASSUME NEW t \in Threads PROVE Progress(t) /\ Outcome(t)
  BY DEF Init, Progress, NothingInPlace, CleanStart, DoneIsWhole, Outcome, Making, Unpacking
<1> QED
  BY <1>1, <1>2, <1>3 DEF PInv

\* What a step of the only attempt has to keep.
LEMMA PStep ==
  ASSUME PInv, OneAttempt, NEW t \in Threads,
         Begin(t) \/ Abort(t) \/ TryAgain(t) \/ Clear(t) \/ Make(t) \/ OpenEntry(t)
           \/ CloseEntry(t) \/ EntriesDone(t) \/ Link(t) \/ LinksDone(t) \/ Rename(t)
           \/ Fail(t) \/ FailAgain(t)
  PROVE  PrefixNotBroken' /\ Progress(t)' /\ Outcome(t)'
<1> DEFINE Goal == PrefixNotBroken /\ NothingInPlace(t) /\ CleanStart(t) /\ DoneIsWhole(t)
                     /\ Outcome(t)
<1> SUFFICES Goal'
  BY DEF Progress
<1> USE DEF PInv, TInv, Disk, Attempts, StreamInFiles, PrefixNotBroken, Progress,
     NothingInPlace, CleanStart, DoneIsWhole, Outcome, Goto, disk, Making, Unpacking
<1>1. CASE Begin(t)
  BY <1>1 DEF Begin, NeedsInstall, Dirs
<1>2. CASE Abort(t) \/ TryAgain(t)
  BY <1>2 DEF Abort, TryAgain
<1>3. CASE Clear(t)
  <2>1. PrefixNotBroken' /\ NothingInPlace(t)'
    BY <1>3 DEF Clear, DeleteItem, DeleteDirectory, Following, Dirs
  <2>2. CleanStart(t)'
    BY <1>3 DEF Clear, DeleteItem, DeleteDirectory, Following, Dirs
  <2>3. DoneIsWhole(t)'
    BY <1>3 DEF Clear, DeleteItem, DeleteDirectory, Following, Dirs
  <2>4. Outcome(t)'
    BY <1>3 DEF Clear, DeleteItem, DeleteDirectory, Following, Dirs
  <2> QED
    BY <2>1, <2>2, <2>3, <2>4
<1>4. CASE Make(t)
  BY <1>4 DEF Make, Following, Dirs
<1>5. CASE OpenEntry(t)
  BY <1>5, InstallAssumption DEF OpenEntry, Dirs, Items, Steps
<1>6. CASE CloseEntry(t)
  BY <1>6 DEF CloseEntry, Dirs, Items
<1>7. CASE EntriesDone(t)
  BY <1>7 DEF EntriesDone, Following
<1>8. CASE Link(t)
  BY <1>8, InstallAssumption DEF Link, Dirs, Items
<1>9. CASE LinksDone(t)
  BY <1>9 DEF LinksDone, Following, Items
<1>10. CASE Rename(t)
  <2> whole["staging"] = Items
    <3>1. whole["staging"] \subseteq Items
      BY DEF Dirs
    <3>2. \A i \in Items : i \in whole["staging"]
      BY <1>10 DEF Rename
    <3> QED
      BY <3>1, <3>2, Zenon
  <2>1. PrefixNotBroken' /\ NothingInPlace(t)'
    BY <1>10 DEF Rename, Following, Dirs
  <2>2. CleanStart(t)'
    BY <1>10 DEF Rename, Following, Dirs
  <2>3. DoneIsWhole(t)'
    BY <1>10 DEF Rename, Following, Dirs
  <2>4. Outcome(t)'
    BY <1>10 DEF Rename, Following, Dirs
  <2> QED
    BY <2>1, <2>2, <2>3, <2>4
<1>11. CASE Fail(t) \/ FailAgain(t)
  BY <1>11 DEF Fail, FailAgain, Steps
<1> QED
  BY <1>1, <1>2, <1>3, <1>4, <1>5, <1>6, <1>7, <1>8, <1>9, <1>10, <1>11

LEMMA PNext == ASSUME OneAttempt PROVE PInv /\ [Next]_vars => PInv'
<1> SUFFICES ASSUME PInv, [Next]_vars PROVE PInv'
  OBVIOUS
<1>1. TInv'
  BY TNext DEF PInv
<1>2. CASE \E t \in Threads :
             Begin(t) \/ Abort(t) \/ TryAgain(t) \/ Clear(t) \/ Make(t) \/ OpenEntry(t)
               \/ CloseEntry(t) \/ EntriesDone(t) \/ Link(t) \/ LinksDone(t) \/ Rename(t)
               \/ Fail(t) \/ FailAgain(t)
  <2>1. PICK t \in Threads : PrefixNotBroken' /\ Progress(t)' /\ Outcome(t)'
    BY <1>2, PStep
  <2>2. \A u \in Threads : u = t
    BY DEF OneAttempt
  <2> QED
    BY <1>1, <2>1, <2>2 DEF PInv
<1>3. CASE Kill
  BY <1>1, <1>3 DEF PInv, TInv, Attempts, Kill, disk, PrefixNotBroken, Progress, Outcome,
     NothingInPlace, CleanStart, DoneIsWhole, Making, Unpacking
<1>4. CASE UNCHANGED vars
  BY <1>1, <1>4 DEF PInv, vars, disk, PrefixNotBroken, Progress, Outcome,
     NothingInPlace, CleanStart, DoneIsWhole
<1> QED
  BY <1>2, <1>3, <1>4 DEF Next

LEMMA PInvPromises == PInv => PrefixNotBroken /\ DoneMeansInstalled /\ ErrorsAreOwn
  BY DEF PInv, Outcome, DoneMeansInstalled, ErrorsAreOwn

\* TermuxInstaller.setupBootstrapIfNeeded, one attempt at a time and any zip:
\* whenever it is killed and whatever fails, $PREFIX holds nothing or everything.
THEOREM NeverBroken == ASSUME OneAttempt PROVE Spec => []PrefixNotBroken
  BY PInit, PNext, PInvPromises, PTL DEF Spec

\* One attempt at a time: the application is restarted only after a whole
\* installation.
THEOREM DoneInstalled == ASSUME OneAttempt PROVE Spec => []DoneMeansInstalled
  BY PInit, PNext, PInvPromises, PTL DEF Spec

\* One attempt at a time: what earlier attempts left behind, the first steps
\* clear away, so that no later one fails of it.
THEOREM NoInheritedErrors == ASSUME OneAttempt PROVE Spec => []ErrorsAreOwn
  BY PInit, PNext, PInvPromises, PTL DEF Spec

-----------------------------------------------------------------------------
(* The installation in one step *)

LEMMA GotoReports ==
  ASSUME TInv, NEW t \in Threads, NEW step \in Locations, Goto(t, step)
  PROVE  Reports' = [Reports EXCEPT ![t] = Report(step)]
  BY DEF TInv, Attempts, Goto, Reports

\* An attempt that goes on working, with $PREFIX as it was, does not show.
LEMMA WorksOn ==
  ASSUME TInv, NEW t \in Threads, NEW step \in Locations, Goto(t, step),
         Report(pc[t]) = "working", Report(step) = "working", InPlace' = InPlace
  PROVE  UNCHANGED Installation!ioVars
<1>1. Reports[t] = "working" /\ Reports = [u \in Threads |-> Reports[u]]
  BY DEF Reports
<1>2. Reports' = [Reports EXCEPT ![t] = "working"]
  BY GotoReports
<1>3. Reports' = Reports
  <2> HIDE DEF Reports
  <2> QED BY <1>1, <1>2
<1> QED
  BY <1>3 DEF Installation!ioVars

\* One that fails gives up.
LEMMA FailsOpenly ==
  ASSUME TInv, NEW t \in Threads, Goto(t, "dialog"), Report(pc[t]) = "working",
         InPlace' = InPlace
  PROVE  Installation!GiveUp(t)
<1>1. Reports[t] = "working"
  BY DEF Reports
<1>2. Reports' = [Reports EXCEPT ![t] = "failed"]
  BY GotoReports DEF Locations, Report
<1> QED
  BY <1>1, <1>2 DEF Installation!GiveUp, Installation!Becomes

\* Each step of the attempt is a step of InstallOnce or none.
LEMMA StepInstalls ==
  ASSUME PInv, NEW t \in Threads,
         Begin(t) \/ Abort(t) \/ TryAgain(t) \/ Clear(t) \/ Make(t) \/ OpenEntry(t)
           \/ CloseEntry(t) \/ EntriesDone(t) \/ Link(t) \/ LinksDone(t) \/ Rename(t)
           \/ Fail(t) \/ FailAgain(t)
  PROVE  [Installation!IONext]_(Installation!ioVars)
<1>0. /\ TInv /\ PrefixNotBroken /\ Progress(t) /\ Outcome(t)
      /\ Reports[t] = Report(pc[t])
  BY DEF PInv, Reports
<1>1. CASE Begin(t)
  <2>1. PICK step \in {"clearStaging", "done"} :
          /\ Goto(t, step)
          /\ step = "done" <=> ~NeedsInstall
    BY <1>1 DEF Begin
  <2>2. InPlace' = InPlace
    BY <1>1 DEF Begin, InPlace, disk
  <2>3. InPlace = "whole" <=> ~NeedsInstall
    BY <1>0, InstallAssumption DEF NeedsInstall, InPlace, PrefixNotBroken, TInv, Disk, Dirs, Items
  <2>4. CASE pc[t] \in {"idle", "done"}
    <3>1. Reports' = [Reports EXCEPT ![t] = Report(step)]
      BY <1>0, <2>1, GotoReports DEF Locations, Steps
    <3>2. Report(step) = IF InPlace = "whole" THEN "done" ELSE "working"
      BY <2>1, <2>3 DEF Report
    <3>3. Reports[t] \in {"none", "done"}
      BY <1>0, <2>4 DEF Report
    <3>4. Installation!Ask(t)
      BY <2>2, <3>1, <3>2, <3>3 DEF Installation!Ask, Installation!Becomes
    <3> QED
      BY <3>4 DEF Installation!IONext
  <2>5. CASE pc[t] = "begin"
    <3>1. NeedsInstall
      BY <1>0, <2>5 DEF Progress, NothingInPlace, NeedsInstall
    <3>2. step = "clearStaging"
      BY <2>1, <3>1
    <3> QED
      BY <1>0, <2>1, <2>2, <2>5, <3>2, WorksOn DEF Report, Locations, Steps
  <2> QED
    BY <1>1, <2>4, <2>5 DEF Begin
<1>2. CASE Abort(t) \/ TryAgain(t)
  <2>1. PICK step \in {"idle", "clearAgain"} : Goto(t, step)
    BY <1>2 DEF Abort, TryAgain
  <2>2. InPlace' = InPlace /\ pc[t] = "dialog"
    BY <1>2 DEF Abort, TryAgain, InPlace, disk
  <2>3. Reports' = [Reports EXCEPT ![t] = Report(step)]
    BY <1>0, <2>1, GotoReports DEF Locations
  <2>4. Reports[t] = "failed" /\ Report(step) \in {"none", "working"}
    BY <1>0, <2>1, <2>2 DEF Report
  <2>5. Installation!Answer(t)
    BY <2>2, <2>3, <2>4 DEF Installation!Answer, Installation!Becomes
  <2> QED
    BY <2>5 DEF Installation!IONext
<1>3. CASE Clear(t)
  <2>1. PICK step \in {"clearStaging", "clearPrefix", "clearAgain"} :
          LET d == IF step = "clearStaging" THEN "staging" ELSE "prefix"
          IN  /\ pc[t] = step
              /\ \/ DeleteItem(t, d)
                 \/ DeleteDirectory(t, d, IF step = "clearAgain" THEN "begin" ELSE Following(step))
    BY <1>3 DEF Clear
  <2> DEFINE d == IF step = "clearStaging" THEN "staging" ELSE "prefix"
  <2>2. CASE DeleteItem(t, d)
    <3>1. d = "staging"
      BY <1>0, <2>1, <2>2 DEF DeleteItem, Progress, NothingInPlace
    <3>2. InPlace' = InPlace /\ Reports' = Reports
      BY <1>0, <2>2, <3>1 DEF DeleteItem, InPlace, Reports, TInv, Disk, Dirs
    <3> QED
      BY <3>2 DEF Installation!ioVars
  <2>3. CASE DeleteDirectory(t, d, IF step = "clearAgain" THEN "begin" ELSE Following(step))
    <3>1. InPlace' = InPlace
      BY <2>3 DEF DeleteDirectory, InPlace
    <3>2. Goto(t, IF step = "clearAgain" THEN "begin" ELSE Following(step))
      BY <2>3 DEF DeleteDirectory
    <3> QED
      BY <1>0, <2>1, <3>1, <3>2, WorksOn DEF Following, Report, Locations, Steps
  <2> QED
    BY <2>1, <2>2, <2>3
<1>4. CASE Make(t)
  <2>1. PICK step \in {"makePrefix", "extract"} : Goto(t, step)
    BY <1>4 DEF Make, Following
  <2>2. InPlace' = InPlace /\ Report(pc[t]) = "working"
    BY <1>4 DEF Make, InPlace, Report
  <2> QED
    BY <1>0, <2>1, <2>2, WorksOn DEF Report, Locations, Steps
<1>5. CASE OpenEntry(t)
  <2>1. InPlace' = InPlace
    BY <1>0, <1>5 DEF OpenEntry, InPlace, TInv, Disk, Dirs
  <2> QED
    BY <1>0, <1>5, <2>1, WorksOn DEF OpenEntry, Report, Locations, Steps
<1>6. CASE CloseEntry(t)
  <2>1. InPlace' = InPlace
    BY <1>0, <1>6 DEF CloseEntry, InPlace, Dirs, Progress, DoneIsWhole
  <2> QED
    BY <1>0, <1>6, <2>1, WorksOn DEF CloseEntry, Report, Locations, Steps
<1>7. CASE EntriesDone(t) \/ LinksDone(t)
  <2>1. PICK step \in {"link", "rename"} : Goto(t, step)
    BY <1>7 DEF EntriesDone, LinksDone, Following
  <2>2. InPlace' = InPlace /\ Report(pc[t]) = "working"
    BY <1>7 DEF EntriesDone, LinksDone, InPlace, disk, Report
  <2> QED
    BY <1>0, <2>1, <2>2, WorksOn DEF Report, Locations, Steps
<1>8. CASE Link(t)
  <2>1. InPlace' = InPlace
    BY <1>0, <1>8 DEF Link, InPlace, TInv, Disk, Dirs
  <2>2. CASE UNCHANGED pc
    BY <2>1, <2>2 DEF Installation!ioVars, Reports
  <2>3. CASE Goto(t, "dialog")
    BY <1>0, <1>8, <2>1, <2>3, FailsOpenly DEF Link, Report, Installation!IONext
  <2> QED
    BY <1>8, <2>2, <2>3 DEF Link
<1>9. CASE Rename(t)
  <2>1. CASE "staging" \in exists /\ files["prefix"] = {}
    <3>1. /\ files' = [e \in Dirs |-> IF e = "prefix" THEN files["staging"] ELSE {}]
          /\ whole' = [e \in Dirs |-> IF e = "prefix" THEN whole["staging"] ELSE {}]
          /\ Goto(t, "done") /\ pc[t] = "rename"
      BY <1>9, <2>1 DEF Rename, Following
    <3>2. \A i \in Items : i \in whole["staging"]
      BY <1>0, <3>1 DEF Progress, DoneIsWhole, Unpacking
    <3>3. whole["staging"] = Items /\ whole["staging"] \subseteq files["staging"]
      BY <1>0, <3>2 DEF TInv, Disk, Dirs
    <3>4. InPlace = "empty" /\ InPlace' = "whole"
      BY <2>1, <3>1, <3>3, InstallAssumption DEF InPlace, Dirs, Items
    <3>5. Reports' = [Reports EXCEPT ![t] = "done"]
      BY <1>0, <3>1, GotoReports DEF Locations, Report
    <3>6. Reports[t] = "working"
      BY <1>0, <3>1 DEF Report
    <3>7. Installation!Install(t)
      BY <3>4, <3>5, <3>6 DEF Installation!Install, Installation!Becomes
    <3> QED
      BY <3>7 DEF Installation!IONext
  <2>2. CASE ~("staging" \in exists /\ files["prefix"] = {})
    <3>1. Goto(t, "dialog") /\ InPlace' = InPlace /\ Report(pc[t]) = "working"
      BY <1>9, <2>2 DEF Rename, InPlace, disk, Report
    <3> QED
      BY <1>0, <3>1, FailsOpenly DEF Installation!IONext
  <2> QED
    BY <2>1, <2>2
<1>10. CASE Fail(t)
  <2>1. Goto(t, "dialog") /\ InPlace' = InPlace /\ Report(pc[t]) = "working"
    BY <1>10 DEF Fail, Steps, InPlace, disk, Report
  <2> QED
    BY <1>0, <2>1, FailsOpenly DEF Installation!IONext
<1>11. CASE FailAgain(t)
  <2>1. Goto(t, "begin") /\ InPlace' = InPlace /\ Report(pc[t]) = "working"
    BY <1>11 DEF FailAgain, InPlace, disk, Report
  <2> QED
    BY <1>0, <2>1, WorksOn DEF Report, Locations
<1> QED
  BY <1>1, <1>2, <1>3, <1>4, <1>5, <1>6, <1>7, <1>8, <1>9, <1>10, <1>11

\* One attempt at a time and any zip: TermuxInstaller implements InstallOnce.
\* $PREFIX is filled in one step, and what is in place stays through every
\* start, failure, second try and kill.
THEOREM Refinement == ASSUME OneAttempt PROVE Spec => ImplementsInstallOnce
<1>1. Init => Installation!IOInit
  BY DEF Init, Installation!IOInit, InPlace, Reports, Report, Dirs
<1>2. PInv /\ [Next]_vars => [Installation!IONext]_(Installation!ioVars)
  <2> SUFFICES ASSUME PInv, [Next]_vars
               PROVE  [Installation!IONext]_(Installation!ioVars)
    OBVIOUS
  <2>1. CASE Kill
    <3>1. InPlace' = InPlace /\ Reports' = [u \in Threads |-> "none"]
      BY <2>1 DEF Kill, InPlace, disk, Reports, Report
    <3> QED
      BY <3>1 DEF Installation!IONext, Installation!Killed
  <2>2. CASE UNCHANGED vars
    BY <2>2 DEF vars, disk, InPlace, Reports, Installation!ioVars
  <2> QED
    BY <2>1, <2>2, StepInstalls DEF Next
<1> QED
  BY <1>1, <1>2, PInit, PNext, PTL DEF Spec, ImplementsInstallOnce, Installation!IOSpec
=============================================================================
