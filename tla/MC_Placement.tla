--------------------------- MODULE MC_Placement ----------------------------
(* Three CPUs and two tasks; counters up to 2 so that unequal loads and    *)
(* ties both occur.                                                        *)
EXTENDS Placement, TLC

CONSTANTS t1, t2

MC_Tasks == {t1, t2}
TaskSymmetry == Permutations(MC_Tasks)
====
