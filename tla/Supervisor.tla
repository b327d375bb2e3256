----------------------------- MODULE Supervisor -----------------------------
(***************************************************************************)
(* What whoever runs doqueru-kun.exe may rely on, without its processes:   *)
(* a container is a set of live processes that the first of them enters    *)
(* before and leaves after all others, and the call returns when the set   *)
(* is empty.  Doqueru implements this specification.                       *)
(***************************************************************************)
CONSTANTS
  Procs,          \* the processes a container can have
  First,          \* the one of them it starts with
  OtherChildren   \* TRUE when the calling process may have older children

VARIABLES
  phase,   \* of the call
  alive    \* the live processes of the container

vars == <<phase, alive>>

Init == phase = "starting" /\ alive = {}

\* The container did not start.
Refuse == phase = "starting" /\ phase' = "refused" /\ UNCHANGED alive

Start ==
  /\ phase  = "starting"
  /\ phase' = "up"
  /\ alive' = {First}

Enter(p) ==
  /\ First \in alive
  /\ p \in Procs \ alive
  /\ alive' = alive \cup {p}
  /\ UNCHANGED phase

Leave(p) ==
  /\ p \in alive
  /\ p = First => alive = {First}
  /\ alive' = alive \ {p}
  /\ UNCHANGED phase

Return ==
  /\ phase = "up"
  /\ alive = {} \/ OtherChildren
  /\ phase' = "returned"
  /\ UNCHANGED alive

\* Killing the caller's process does not end the container.
Kill ==
  /\ phase \in {"starting", "up"}
  /\ phase' = "killed"
  /\ UNCHANGED alive

Next == \/ Refuse \/ Start \/ Return \/ Kill
        \/ \E p \in Procs : Enter(p) \/ Leave(p)

Spec == Init /\ [][Next]_vars
=============================================================================
