---------------------------- MODULE FifoWork ----------------------------
(***************************************************************************)
(* What LorieMessageQueue promises to the code that uses it: closures      *)
(* posted from any thread run one at a time, on the compositor thread, in  *)
(* the order in which they were posted, each at most once.                 *)
(***************************************************************************)
EXTENDS Sequences, Naturals

CONSTANTS
  Work        \* the closures that can be posted

VARIABLES
  accepted,   \* every closure posted so far, in the order it was accepted
  done        \* how many of them have been started, always a prefix

fwVars == <<accepted, done>>

FWInit == accepted = << >> /\ done = 0

\* A closure not posted before is added at the end.  (It is read off the next
\* state: the set of closures need not be one that can be enumerated.)
Accept ==
  /\ Len(accepted') = Len(accepted) + 1
  /\ LET w == accepted'[Len(accepted')]
     IN  /\ w \in Work
         /\ \A i \in DOMAIN accepted : accepted[i] # w
         /\ accepted' = Append(accepted, w)
  /\ UNCHANGED done

\* The oldest closure that has not been started is started.
Start ==
  /\ done < Len(accepted)
  /\ done' = done + 1
  /\ UNCHANGED accepted

FWNext == Accept \/ Start

FWSpec == FWInit /\ [][FWNext]_fwVars
=============================================================================
