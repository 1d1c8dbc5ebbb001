------------------------------- MODULE RunSlot -------------------------------
(***************************************************************************)
(* What "one at a time" promises, as an abstract specification: a slot     *)
(* that is empty or holds one job.  A job takes the slot when it is empty, *)
(* leaves it, and never comes back; the slot may also be swept, when the   *)
(* process that keeps it goes away.  The update runner and the reboot      *)
(* listener of the client are shown to implement it.                       *)
(***************************************************************************)
CONSTANT Jobs

VARIABLES
  holder,  \* the jobs in the slot: none, or one
  served   \* the jobs that have ever taken it

vars == <<holder, served>>

TypeOK == holder \in SUBSET Jobs /\ served \in SUBSET Jobs

Init == holder = {} /\ served = {}

Take(j) ==
  /\ holder = {}
  /\ j \notin served
  /\ holder' = {j}
  /\ served' = served \cup {j}

\* Leaving the slot, whether the job ended or its process did.
Leave ==
  /\ holder # {}
  /\ holder' = {}
  /\ UNCHANGED served

Next == Leave \/ \E j \in Jobs : Take(j)

Spec == Init /\ [][Next]_vars
=============================================================================
