---------------------------- MODULE ProgramStart ----------------------------
(***************************************************************************)
(* What both loaders of SCSFW promise: the two CPUs run loader code until  *)
(* every part of the program is in place, and only then enter the program. *)
(*                                                                         *)
(* miniboot (MinibootIpc) and hbmenu's bootloader (BootHandoff) keep this  *)
(* promise with quite different protocols.                                 *)
(***************************************************************************)
CONSTANT Parts          \* parts of a program: its binaries, header, ...

VARIABLES
  placed,               \* parts that are in place
  running               \* CPUs that have entered the program

CPUs == {"arm9", "arm7"}

vars == <<placed, running>>

\* A part the loader has nothing to do for is in place from the start
Init == placed \subseteq Parts /\ running = {}

\* Parts arrive while no CPU runs the program, and are never disturbed again
Place ==
  /\ running = {}
  /\ placed' \in SUBSET Parts /\ placed \subseteq placed'
  /\ UNCHANGED running

Enter(cpu) ==
  /\ placed = Parts
  /\ running' = running \cup {cpu}
  /\ UNCHANGED placed

Next == Place \/ \E cpu \in CPUs : Enter(cpu)

Spec == Init /\ [][Next]_vars
=============================================================================
