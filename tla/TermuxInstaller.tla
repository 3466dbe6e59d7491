--------------------------- MODULE TermuxInstaller ---------------------------
(***************************************************************************)
(* TermuxInstaller.setupBootstrapIfNeeded (utils/TermuxInstaller.java):    *)
(* the bootstrap packages are unpacked into a staging directory, which is  *)
(* then renamed to $PREFIX, by a background thread per attempt.  An        *)
(* operation on the files may fail and the process may be killed between   *)
(* any two of them; the disk is all that survives.                         *)
(*                                                                         *)
(* The zip is a set of entries and a set of the links its SYMLINKS.txt     *)
(* names, subdirectories are not told from their directory, and a $PREFIX  *)
(* that holds nothing but tmp counts as empty, as the code has it.  The    *)
(* two early returns before anything is touched (not the primary user, no  *)
(* access to the files directory) change nothing and are left out.         *)
(***************************************************************************)
EXTENDS Naturals

CONSTANTS
  Threads,    \* the attempts that may run at once: one, unless the activity is
              \* recreated under a running thread and its button tapped again
  Entries,    \* the entries of the zip other than SYMLINKS.txt
  Links,      \* the links SYMLINKS.txt names
  NoEntry,    \* no entry
  MaxFaults   \* bound: failed operations and kills

ASSUME InstallAssumption ==
  /\ Entries \cap Links = {} /\ Links # {}
  /\ NoEntry \notin Entries
  /\ MaxFaults \in Nat

Items == Entries \cup Links
Dirs  == {"prefix", "staging"}

VARIABLES
  exists,   \* the directories that exist
  files,    \* what is in each of them
  whole,    \* what is in each of them and completely written
  pc,       \* where each attempt is
  todo,     \* the entries and links it has yet to install
  entry,    \* the entry it is extracting
  stream,   \* the directory its open file is in now, or "none"
  struck,   \* history: one of its operations failed
  faults    \* history: how many operations failed and kills there were

disk == <<exists, files, whole>>
vars == <<disk, pc, todo, entry, stream, struck, faults>>

\* The steps of the thread, and the last ones: after done there is only whenDone.
Steps == {"clearStaging", "clearPrefix", "makeStaging", "makePrefix",
          "extract", "write", "link", "rename"}

\* Mistake: the directory is put in place before its links are made.
RenameFirst(step) ==
  CASE step = "clearStaging" -> "clearPrefix"
    [] step = "clearPrefix"  -> "makeStaging"
    [] step = "makeStaging"  -> "makePrefix"
    [] step = "makePrefix"   -> "extract"
    [] step = "extract"      -> "rename"
    [] step = "rename"       -> "link"
    [] step = "link"         -> "done"

\* The order of the steps.
Following(step) ==
  CASE step = "clearStaging" -> "clearPrefix"
    [] step = "clearPrefix"  -> "makeStaging"
    [] step = "makeStaging"  -> "makePrefix"
    [] step = "makePrefix"   -> "extract"
    [] step = "extract"      -> "link"
    [] step = "link"         -> "rename"
    [] step = "rename"       -> "done"

Goto(t, step) == pc' = [pc EXCEPT ![t] = step]

Init ==
  /\ exists = {}
  /\ files = [d \in Dirs |-> {}] /\ whole = [d \in Dirs |-> {}]
  /\ pc = [t \in Threads |-> "idle"]
  /\ todo = [t \in Threads |-> {}]
  /\ entry = [t \in Threads |-> NoEntry] /\ stream = [t \in Threads |-> "none"]
  /\ struck = [t \in Threads |-> FALSE]
  /\ faults = 0

-----------------------------------------------------------------------------
(* On the UI thread: setupBootstrapIfNeeded and the error dialog's buttons.  *)
(* One attempt's retry is not interleaved with the start of another one.     *)

UiFree(t) == \A u \in Threads \ {t} : pc[u] \notin {"clearAgain", "begin"}

\* Mistake: an installation is replaced.
ReinstallAlways == TRUE

\* "exists but is empty or only contains the tmp directory", or does not exist.
NeedsInstall == "prefix" \notin exists \/ files["prefix"] = {}

\* Mistake: what a killed attempt left in the staging directory stays there.
BeginOnLeftovers(t) ==
  /\ pc[t] \in {"idle", "begin", "done"} /\ UiFree(t)
  /\ Goto(t, IF NeedsInstall THEN "clearPrefix" ELSE "done")
  /\ todo' = [todo EXCEPT ![t] = Items]
  /\ struck' = [struck EXCEPT ![t] = FALSE]
  /\ UNCHANGED <<disk, entry, stream, faults>>

\* Done at once if $PREFIX is there, or else the thread is started.
Begin(t) ==
  /\ pc[t] \in {"idle", "begin", "done"} /\ UiFree(t)
  /\ Goto(t, IF NeedsInstall THEN "clearStaging" ELSE "done")
  /\ todo' = [todo EXCEPT ![t] = Items]
  /\ struck' = [struck EXCEPT ![t] = FALSE]
  /\ UNCHANGED <<disk, entry, stream, faults>>

Abort(t) ==
  /\ pc[t] = "dialog" /\ UiFree(t)
  /\ Goto(t, "idle")
  /\ UNCHANGED <<disk, todo, entry, stream, struck, faults>>

\* Try again: $PREFIX is deleted, then everything starts over.
TryAgain(t) ==
  /\ pc[t] = "dialog" /\ UiFree(t)
  /\ Goto(t, "clearAgain")
  /\ UNCHANGED <<disk, todo, entry, stream, struck, faults>>

-----------------------------------------------------------------------------
(* The steps of the thread *)

\* FileUtils.deleteFile deletes what is in the directory, then the directory.
DeleteItem(t, d) ==
  /\ \E i \in files[d] :
       /\ files' = [files EXCEPT ![d] = @ \ {i}]
       /\ whole' = [whole EXCEPT ![d] = @ \ {i}]
       /\ stream' = [u \in Threads |-> IF stream[u] = d /\ entry[u] = i THEN "none"
                                       ELSE stream[u]]
  /\ UNCHANGED <<exists, pc, todo, entry, struck, faults>>

DeleteDirectory(t, d, after) ==
  /\ files[d] = {} /\ exists' = exists \ {d}
  /\ Goto(t, after)
  /\ UNCHANGED <<files, whole, todo, entry, stream, struck, faults>>

Clear(t) ==
  \E step \in {"clearStaging", "clearPrefix", "clearAgain"} :
    LET d == IF step = "clearStaging" THEN "staging" ELSE "prefix"
    IN  /\ pc[t] = step
        /\ \/ DeleteItem(t, d)
           \/ DeleteDirectory(t, d, IF step = "clearAgain" THEN "begin" ELSE Following(step))

\* The staging directory, then $PREFIX itself, are created.
Make(t) ==
  \E step \in {"makeStaging", "makePrefix"} :
    /\ pc[t] = step
    /\ exists' = exists \cup {IF step = "makeStaging" THEN "staging" ELSE "prefix"}
    /\ Goto(t, Following(step))
    /\ UNCHANGED <<files, whole, todo, entry, stream, struck, faults>>

\* The file of the next entry is created or cut to nothing, its directories made
\* if need be.  Whoever had it open has its bytes written over from now on.
OpenEntry(t) ==
  /\ pc[t] = "extract" /\ Goto(t, "write")
  /\ \E i \in todo[t] \cap Entries :
       /\ files' = [files EXCEPT !["staging"] = @ \cup {i}]
       /\ whole' = [whole EXCEPT !["staging"] = @ \ {i}]
       /\ entry' = [entry EXCEPT ![t] = i]
       /\ stream' = [u \in Threads |->
                       IF u = t THEN "staging"
                       ELSE IF stream[u] = "staging" /\ entry[u] = i THEN "none"
                       ELSE stream[u]]
  /\ exists' = exists \cup {"staging"}
  /\ UNCHANGED <<todo, struck, faults>>

\* Its last byte is written, wherever the file is by now.
CloseEntry(t) ==
  /\ pc[t] = "write" /\ Goto(t, "extract")
  /\ whole' = [d \in Dirs |-> IF stream[t] = d THEN whole[d] \cup {entry[t]} ELSE whole[d]]
  /\ todo' = [todo EXCEPT ![t] = @ \ {entry[t]}]
  /\ stream' = [stream EXCEPT ![t] = "none"]
  /\ UNCHANGED <<exists, files, entry, struck, faults>>

EntriesDone(t) ==
  /\ pc[t] = "extract" /\ todo[t] \cap Entries = {}
  /\ Goto(t, Following("extract"))
  /\ UNCHANGED <<disk, todo, entry, stream, struck, faults>>

\* Os.symlink, which throws if the name is taken or its directory is not there.
Link(t) ==
  /\ pc[t] = "link"
  /\ \E l \in todo[t] \cap Links :
       IF "staging" \in exists /\ l \notin files["staging"]
       THEN /\ files' = [files EXCEPT !["staging"] = @ \cup {l}]
            /\ whole' = [whole EXCEPT !["staging"] = @ \cup {l}]
            /\ todo' = [todo EXCEPT ![t] = @ \ {l}]
            /\ UNCHANGED pc
       ELSE Goto(t, "dialog") /\ UNCHANGED <<files, whole, todo>>
  /\ UNCHANGED <<exists, entry, stream, struck, faults>>

LinksDone(t) ==
  /\ pc[t] = "link" /\ todo[t] \cap Links = {}
  /\ Goto(t, Following("link"))
  /\ UNCHANGED <<disk, todo, entry, stream, struck, faults>>

\* renameTo replaces $PREFIX if that is not there or empty, and fails otherwise.
Rename(t) ==
  /\ pc[t] = "rename"
  /\ IF "staging" \in exists /\ files["prefix"] = {}
     THEN /\ exists' = (exists \ {"staging"}) \cup {"prefix"}
          /\ files' = [d \in Dirs |-> IF d = "prefix" THEN files["staging"] ELSE {}]
          /\ whole' = [d \in Dirs |-> IF d = "prefix" THEN whole["staging"] ELSE {}]
          /\ stream' = [u \in Threads |-> IF stream[u] = "staging" THEN "prefix" ELSE stream[u]]
          /\ Goto(t, Following("rename"))
     ELSE Goto(t, "dialog") /\ UNCHANGED <<disk, stream>>
  /\ UNCHANGED <<todo, entry, struck, faults>>

-----------------------------------------------------------------------------
(* What goes wrong *)

\* Mistake: a failed write leaves its file open.
FailKeepingFile(t) ==
  /\ pc[t] \in Steps /\ faults < MaxFaults
  /\ Goto(t, "dialog")
  /\ struck' = [struck EXCEPT ![t] = TRUE]
  /\ faults' = faults + 1
  /\ UNCHANGED <<disk, todo, entry, stream>>

\* An operation fails or throws: the file is closed as it is, a dialog says so.
Fail(t) ==
  /\ pc[t] \in Steps /\ faults < MaxFaults
  /\ Goto(t, "dialog")
  /\ stream' = [stream EXCEPT ![t] = "none"]
  /\ struck' = [struck EXCEPT ![t] = TRUE]
  /\ faults' = faults + 1
  /\ UNCHANGED <<disk, todo, entry>>

\* What TryAgain could not delete is ignored.
FailAgain(t) ==
  /\ pc[t] = "clearAgain" /\ faults < MaxFaults
  /\ Goto(t, "begin")
  /\ faults' = faults + 1
  /\ UNCHANGED <<disk, todo, entry, stream, struck>>

\* The process is killed.
Kill ==
  /\ faults < MaxFaults /\ faults' = faults + 1
  /\ pc' = [t \in Threads |-> "idle"]
  /\ stream' = [t \in Threads |-> "none"]
  /\ UNCHANGED <<disk, todo, entry, struck>>

Next ==
  \/ \E t \in Threads :
       \/ Begin(t) \/ Abort(t) \/ TryAgain(t)
       \/ Clear(t) \/ Make(t) \/ OpenEntry(t) \/ CloseEntry(t) \/ EntriesDone(t)
       \/ Link(t) \/ LinksDone(t) \/ Rename(t)
       \/ Fail(t) \/ FailAgain(t)
  \/ Kill

Spec == Init /\ [][Next]_vars

-----------------------------------------------------------------------------
TypeOK ==
  /\ exists \subseteq Dirs
  /\ files \in [Dirs -> SUBSET Items] /\ whole \in [Dirs -> SUBSET Items]
  /\ \A d \in Dirs : whole[d] \subseteq files[d]
  /\ pc \in [Threads -> Steps \cup {"idle", "begin", "clearAgain", "dialog", "done"}]
  /\ todo \in [Threads -> SUBSET Items]
  /\ entry \in [Threads -> Entries \cup {NoEntry}]
  /\ stream \in [Threads -> Dirs \cup {"none"}]
  /\ \A t \in Threads : stream[t] # "none" => pc[t] = "write"
  /\ struck \in [Threads -> BOOLEAN]
  /\ faults \in Nat

\* "If $PREFIX already exist, assume that it is correct and be done.  Note that
\* this relies on that we do not create a broken $PREFIX directory below"
\* (TermuxInstaller.java 44-45): whatever is killed or fails, $PREFIX holds
\* nothing or everything.
PrefixNotBroken == files["prefix"] = {} \/ whole["prefix"] = Items

\* whenDone, which restarts the application, is not called without an
\* installation, a killed attempt's empty $PREFIX included.
DoneMeansInstalled == \A t \in Threads : pc[t] = "done" => whole["prefix"] = Items

\* Nothing a killed or failed attempt leaves behind makes a later one fail: an
\* attempt ends in the error dialog only if one of its own operations failed.
ErrorsAreOwn == \A t \in Threads : pc[t] = "dialog" => struck[t]

-----------------------------------------------------------------------------
(* The installation in one step *)

\* What a later start finds of $PREFIX.
InPlace ==
  IF files["prefix"] = {} THEN "empty"
  ELSE IF whole["prefix"] = Items THEN "whole" ELSE "broken"

\* What an attempt at a step has come to.
Report(step) ==
  CASE step = "idle"   -> "none"
    [] step = "done"   -> "done"
    [] step = "dialog" -> "failed"
    [] OTHER           -> "working"

Reports == [t \in Threads |-> Report(pc[t])]

Installation == INSTANCE InstallOnce WITH
  Attempts <- Threads, prefix <- InPlace, outcome <- Reports

\* TermuxInstaller implements the installation in one step: $PREFIX goes from
\* empty to whole when it is renamed, and no try, kill or second try takes away
\* an installation.
ImplementsInstallOnce == Installation!IOSpec
=============================================================================
