------------------------- MODULE MC_TaskLifecycle --------------------------
(* Instances of TaskLifecycle for TLC.                                     *)
(*  - SMP: two CPUs, each running TestMultiTasking with its two tasks, and *)
(*    four pid slots: the boot tasks take two, so a third concurrent       *)
(*    Start finds the table full, and slots are reused as tasks exit.      *)
(*  - UP (smp=off, scenario S1): one CPU, two tasks, two pid slots, with   *)
(*    every allocation able to fail and the shell running Ps.             *)
EXTENDS TaskLifecycle

CONSTANTS c1, c2

SMP_CPUs == {c1, c2}
UP_CPUs  == {c1}
====
