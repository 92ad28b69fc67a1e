----------------------------- MODULE TaskLifeSpec ----------------------------
(***************************************************************************)
(* What a task's lifetime promises (spec 3 and 4): the life of each task  *)
(* as a state machine, and whether its creator still holds the reference *)
(* "new Task" gave it.                                                     *)
(*                                                                         *)
(*   unborn --create--> new --start--> started --exit--> exited            *)
(*                       |                                  |              *)
(*                       +-------------- free --------------+--> freed     *)
(*                                                                         *)
(* A task is started only by a creator that holds it.  The creator drops  *)
(* its reference only while the task does not run (never started, its     *)
(* start failed, or it has exited), and a task is freed only then and     *)
(* only after its creator has dropped it; the creator's own Put may be the *)
(* one that frees it.  Every started task exits, and every task the       *)
(* creator let go of is eventually freed.                                  *)
(***************************************************************************)
CONSTANTS Tasks

VARIABLES
    life,   \* "unborn" | "new" | "started" | "exited" | "freed"
    held    \* the creator still owns its reference

tvars == <<life, held>>

TInit ==
    /\ life = [t \in Tasks |-> "unborn"]
    /\ held = [t \in Tasks |-> FALSE]

\* A task that does not run: its memory may go once nobody holds it.
Idle(t) == life[t] \in {"new", "exited"}

TCreate(t) ==
    /\ life[t] = "unborn"
    /\ life' = [life EXCEPT ![t] = "new"]
    /\ held' = [held EXCEPT ![t] = TRUE]

TStart(t) ==
    /\ life[t] = "new" /\ held[t]
    /\ life' = [life EXCEPT ![t] = "started"]
    /\ UNCHANGED held

TExit(t) ==
    /\ life[t] = "started"
    /\ life' = [life EXCEPT ![t] = "exited"]
    /\ UNCHANGED held

\* The creator's Put, which frees the task if it was the last reference.
TDrop(t) ==
    /\ held[t] /\ Idle(t)
    /\ held' = [held EXCEPT ![t] = FALSE]
    /\ \E l \in {life[t], "freed"} : life' = [life EXCEPT ![t] = l]

\* The last Put by another holder (a table, a queue).
TFree(t) ==
    /\ ~held[t] /\ Idle(t)
    /\ life' = [life EXCEPT ![t] = "freed"]
    /\ UNCHANGED held

TNext == \E t \in Tasks : TCreate(t) \/ TStart(t) \/ TExit(t) \/ TDrop(t) \/ TFree(t)

TSpec ==
    /\ TInit /\ [][TNext]_tvars
    /\ \A t \in Tasks : WF_tvars(TExit(t)) /\ WF_tvars(TDrop(t)) /\ WF_tvars(TFree(t))
=============================================================================
