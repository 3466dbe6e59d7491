---------------------------- MODULE InstallOnce ----------------------------
(***************************************************************************)
(* What TermuxInstaller promises to the rest of the application: $PREFIX   *)
(* gets everything in one step or nothing at all, a user who aborts, tries *)
(* again or kills the application never loses an installation, and only an *)
(* attempt that finds or makes one ends in whenDone.                       *)
(***************************************************************************)

CONSTANT Attempts

VARIABLES
  prefix,    \* "empty" or "whole"
  outcome    \* of each attempt: "none", "working", "failed" or "done"

ioVars == <<prefix, outcome>>

IOInit == prefix = "empty" /\ outcome = [a \in Attempts |-> "none"]

Becomes(a, what) == outcome' = [outcome EXCEPT ![a] = what]

\* Whoever asks for an installation that is there is done.
Ask(a) ==
  /\ outcome[a] \in {"none", "done"}
  /\ Becomes(a, IF prefix = "whole" THEN "done" ELSE "working")
  /\ UNCHANGED prefix

Install(a) ==
  /\ outcome[a] = "working" /\ prefix = "empty"
  /\ prefix' = "whole" /\ Becomes(a, "done")

GiveUp(a) == outcome[a] = "working" /\ Becomes(a, "failed") /\ UNCHANGED prefix

\* The two buttons of the dialog.
Answer(a) ==
  /\ outcome[a] = "failed"
  /\ Becomes(a, "none") \/ Becomes(a, "working")
  /\ UNCHANGED prefix

Killed == outcome' = [a \in Attempts |-> "none"] /\ UNCHANGED prefix

IONext ==
  \/ \E a \in Attempts : Ask(a) \/ Install(a) \/ GiveUp(a) \/ Answer(a)
  \/ Killed

IOSpec == IOInit /\ [][IONext]_ioVars
=============================================================================
