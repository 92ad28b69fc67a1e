--------------------------- MODULE ObjectTableSpec --------------------------
(***************************************************************************)
(* What an ObjectTable promises (spec 8.2), with each operation one atomic *)
(* step.  Every client inserts its object, looks up one id, removes its    *)
(* object if the insert gave it an id, and is done.  Insert stores the     *)
(* object under some free id, or returns InvalidObjectId and changes       *)
(* nothing when the table is full; Lookup returns what the id holds (null  *)
(* for an id out of range); Remove empties the id.  Destroying the table   *)
(* stops every client wherever it is and empties the table.                *)
(***************************************************************************)
EXTENDS Naturals

CONSTANTS Clients, MaxObjects, NoObject, InvalidObjectId, Finalize

VARIABLES
    table,    \* id -> object or NoObject
    op,       \* the operation each client performs next
    slot,     \* the id Insert returned to the client
    seen,     \* the object Lookup returned to the client
    halted    \* the table has been destroyed

avars == <<table, op, slot, seen, halted>>

Ids == 0 .. MaxObjects - 1
Free == {k \in Ids : table[k] = NoObject}

AInit ==
    /\ table = [k \in Ids |-> NoObject]
    /\ op = [c \in Clients |-> "insert"]
    /\ slot = [c \in Clients |-> InvalidObjectId]
    /\ seen = [c \in Clients |-> NoObject]
    /\ halted = FALSE

AInsert(c) ==
    /\ op[c] = "insert"
    /\ \/ \E k \in Free : /\ table' = [table EXCEPT ![k] = c]
                          /\ slot' = [slot EXCEPT ![c] = k]
       \/ Free = {} /\ UNCHANGED <<table, slot>>
    /\ op' = [op EXCEPT ![c] = "lookup"]
    /\ UNCHANGED <<seen, halted>>

ALookup(c, k) ==
    /\ op[c] = "lookup"
    /\ seen' = [seen EXCEPT ![c] = IF k \in Ids THEN table[k] ELSE NoObject]
    /\ op' = [op EXCEPT ![c] = IF slot[c] \in Ids THEN "remove" ELSE "done"]
    /\ UNCHANGED <<table, slot, halted>>

ARemove(c) ==
    /\ op[c] = "remove"
    /\ table' = [table EXCEPT ![slot[c]] = NoObject]
    /\ op' = [op EXCEPT ![c] = "done"]
    /\ UNCHANGED <<slot, seen, halted>>

ADestroy ==
    /\ Finalize
    /\ halted' = TRUE
    /\ table' = [k \in Ids |-> NoObject]
    /\ UNCHANGED <<op, slot, seen>>

AStep(c) ==
    /\ ~halted
    /\ \/ AInsert(c) \/ ARemove(c)
       \/ \E k \in 0 .. MaxObjects : ALookup(c, k)

ANext == (\E c \in Clients : AStep(c)) \/ (~halted /\ ADestroy)

\* A client not stopped by the destruction finishes its operations.
Spec == AInit /\ [][ANext]_avars /\ \A c \in Clients : WF_avars(AStep(c))
=============================================================================
