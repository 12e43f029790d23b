---- MODULE PlatformFaults ----
(***************************************************************************)
(* What the components share: the value that stands for "nothing", and     *)
(* the faults of their surroundings.  A fault is one kind of thing that    *)
(* the code does not control (two calls overlap, the process dies, Redis   *)
(* does not answer); faults are those a behaviour may meet, chosen in its  *)
(* first state, so that a property can say what it depends on.             *)
(***************************************************************************)
CONSTANTS
  None,       \* no value: null, an absent row, a free lock
  FaultSets   \* the sets of faults an instance looks at

VARIABLE faults   \* what may happen in this behaviour, one of FaultSets
====
