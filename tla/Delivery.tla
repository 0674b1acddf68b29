------------------------------ MODULE Delivery ------------------------------
(***************************************************************************)
(* What the class usenet promises to the program that uses it, without     *)
(* lists, queue, threads or connections (usenet.hpp:3-9 and 159-186):      *)
(* commands are submitted one after the other, the finish callback runs at *)
(* most once for each, and the queue size read after join() tells          *)
(* truthfully whether all of them were carried out.                        *)
(***************************************************************************)
EXTENDS Naturals, Sequences

CONSTANT Script      \* the commands, in the order they are submitted

VARIABLES submitted, \* how many of them were submitted
          finished,  \* those whose finish callback has run
          outcome    \* how the process ended, once it has

vars == <<submitted, finished, outcome>>

Submitted == {Script[i] : i \in 1..submitted}

Init ==
  /\ submitted = 0
  /\ finished = {}
  /\ outcome = "running"

Submit ==
  /\ outcome = "running"
  /\ submitted < Len(Script)
  /\ submitted' = submitted + 1
  /\ UNCHANGED <<finished, outcome>>

Finish ==
  /\ outcome = "running"
  /\ \E cmd \in Submitted \ finished : finished' = finished \cup {cmd}
  /\ UNCHANGED <<submitted, outcome>>

\* The queue is empty after join(): everything was carried out.
Succeed ==
  /\ outcome = "running"
  /\ submitted = Len(Script)
  /\ finished = Submitted
  /\ outcome' = "exit0"
  /\ UNCHANGED <<submitted, finished>>

\* It is not: something was not.
Fail ==
  /\ outcome = "running"
  /\ submitted = Len(Script)
  /\ finished # Submitted
  /\ outcome' = "exit1"
  /\ UNCHANGED <<submitted, finished>>

\* The client calls std::exit, or the process dies.
Break ==
  /\ outcome = "running"
  /\ outcome' \in {"aborted", "crashed"}
  /\ UNCHANGED <<submitted, finished>>

Next == Submit \/ Finish \/ Succeed \/ Fail \/ Break

Spec == Init /\ [][Next]_vars
=============================================================================
