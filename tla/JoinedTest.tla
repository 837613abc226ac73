----------------------------- MODULE JoinedTest -----------------------------
(***************************************************************************)
(* What a DMA test command promises, with no word on how: threads work     *)
(* between one start and one release of what they share, the release comes *)
(* when no thread is at work any more, and the verdict of the command      *)
(* tells of every failure of every thread.                                 *)
(***************************************************************************)
CONSTANT Thread

VARIABLES
  phase,   \* "setup", "testing", "released", "over"
  active,  \* the threads at work
  failed,  \* the threads that met an error
  good     \* the verdict: TRUE when the command reports success

jvars == <<phase, active, failed, good>>

Init ==
  /\ phase = "setup"
  /\ active = {}
  /\ failed = {}
  /\ good = FALSE

Launch ==
  /\ phase = "setup"
  /\ phase' = "testing"
  /\ active' \in SUBSET Thread
  /\ UNCHANGED <<failed, good>>

Fail(i) ==
  /\ i \in active
  /\ failed' = failed \cup {i}
  /\ UNCHANGED <<phase, active, good>>

Leave(i) ==
  /\ i \in active
  /\ active' = active \ {i}
  /\ UNCHANGED <<phase, failed, good>>

(* From the setup on the paths that start no thread.                       *)
Release ==
  /\ phase \in {"setup", "testing"}
  /\ active = {}
  /\ phase' = "released"
  /\ UNCHANGED <<active, failed, good>>

Judge ==
  /\ phase = "released"
  /\ phase' = "over"
  /\ good' \in IF failed = {} THEN BOOLEAN ELSE {FALSE}
  /\ UNCHANGED <<active, failed>>

Next ==
  \/ Launch \/ Release \/ Judge
  \/ \E i \in Thread : Fail(i) \/ Leave(i)

Spec == Init /\ [][Next]_jvars

=============================================================================
