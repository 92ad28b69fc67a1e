----------------------------- MODULE ObjectTable ----------------------------
(***************************************************************************)
(* ObjectTable (src/kernel/object_table.cpp) with the reference counting   *)
(* of the objects it holds (Task::Get/Put, src/kernel/task.cpp).           *)
(*                                                                         *)
(* Each client owns one object (the object is named by its client) with    *)
(* the reference its constructor gave it.  It inserts the object, looks    *)
(* up one id, removes its id if the insert succeeded and drops its own     *)
(* reference: the use TaskTable makes of the table, plus a Lookup.  A step *)
(* is an atomic counter update or one critical section under the table's  *)
(* lock.  The destructor runs in __cxa_finalize on the BP after            *)
(* ExitAllExceptSelf halted the other CPUs; a CPU never halts inside a     *)
(* critical section, since the lock disables interrupts.                   *)
(***************************************************************************)
EXTENDS Naturals, FiniteSets, FiniteSetsExt

CONSTANTS
    Clients,          \* the clients, each with its own object
    MaxObjects,       \* ArraySize(ObjectArray)
    NoObject,         \* nullptr
    InvalidObjectId,  \* returned by a failed Insert
    Finalize          \* whether the table is destroyed while clients run

ASSUME /\ MaxObjects \in Nat \ {0}
       /\ NoObject \notin Clients
       /\ InvalidObjectId \notin 0 .. MaxObjects
       /\ Finalize \in BOOLEAN

Ids == 0 .. MaxObjects - 1

VARIABLES
    ObjectArray,  \* ObjectTable::ObjectArray
    refs,         \* RefCounter of each object
    alloc,        \* "live" | "freed"
    pc,           \* where each client is
    id,           \* the id Insert returned to the client
    seen,         \* the object Lookup returned to the client
    lobj,         \* the object Remove swapped out, not yet Put
    halted        \* the destructor has run; the other CPUs are halted

vars == <<ObjectArray, refs, alloc, pc, id, seen, lobj, halted>>

TypeOK ==
    /\ ObjectArray \in [Ids -> Clients \cup {NoObject}]
    /\ refs \in [Clients -> Nat]
    /\ alloc \in [Clients -> {"live", "freed"}]
    /\ pc \in [Clients -> {"new", "insLock", "insPut", "lookup", "lkPut",
                           "remove", "rmPut", "release", "done"}]
    /\ id \in [Clients -> Ids \cup {InvalidObjectId}]
    /\ seen \in [Clients -> Clients \cup {NoObject}]
    /\ lobj \in [Clients -> Clients \cup {NoObject}]
    /\ halted \in BOOLEAN

-----------------------------------------------------------------------------
(* Task::Get / Task::Put: the Put that reaches zero releases the object.   *)

Get(o) == /\ refs' = [refs EXCEPT ![o] = @ + 1]
          /\ UNCHANGED alloc

PutSet(S) ==
    /\ refs' = [o \in Clients |-> IF o \in S THEN refs[o] - 1 ELSE refs[o]]
    /\ alloc' = [o \in Clients |-> IF o \in S /\ refs[o] = 1 THEN "freed" ELSE alloc[o]]

Put(o) == PutSet({o})

\* "if (object != nullptr) object->Put()"
PutIfAny(o) == IF o # NoObject THEN Put(o) ELSE UNCHANGED <<refs, alloc>>

Goto(c, l) == pc' = [pc EXCEPT ![c] = l]

FreeSlots == {k \in Ids : ObjectArray[k] = NoObject}

-----------------------------------------------------------------------------
(* ObjectTable::Insert                                                     *)

\* object->Get() before the lock is taken.
ObjInsertGet(c) ==
    /\ pc[c] = "new"
    /\ Get(c)
    /\ Goto(c, "insLock")
    /\ UNCHANGED <<ObjectArray, id, seen, lobj, halted>>

\* Under the lock: the first null slot gets the object, its index returned.
ObjInsertScan(c) ==
    /\ pc[c] = "insLock"
    /\ FreeSlots # {}
    /\ ObjectArray' = [ObjectArray EXCEPT ![Min(FreeSlots)] = c]
    /\ id' = [id EXCEPT ![c] = Min(FreeSlots)]
    /\ Goto(c, "lookup")
    /\ UNCHANGED <<refs, alloc, seen, lobj, halted>>

\* Mutation: a full table returns the loop index instead of InvalidObjectId.
ObjInsertFull_ReturnIndex(c) ==
    /\ pc[c] = "insLock"
    /\ FreeSlots = {}
    /\ id' = [id EXCEPT ![c] = MaxObjects]
    /\ Goto(c, "insPut")
    /\ UNCHANGED <<ObjectArray, refs, alloc, seen, lobj, halted>>

\* No slot is free: the lock is dropped, then object->Put().
ObjInsertFull(c) ==
    /\ pc[c] = "insLock"
    /\ FreeSlots = {}
    /\ Goto(c, "insPut")
    /\ UNCHANGED <<ObjectArray, refs, alloc, id, seen, lobj, halted>>

ObjInsertPut(c) ==
    /\ pc[c] = "insPut"
    /\ Put(c)
    /\ Goto(c, "lookup")
    /\ UNCHANGED <<ObjectArray, id, seen, lobj, halted>>

-----------------------------------------------------------------------------
(* ObjectTable::Lookup: an id out of range returns nullptr; otherwise,     *)
(* under the lock, the slot's object gets a reference and is returned.     *)
\* Mutation: Lookup returns the object without taking a reference.
ObjLookup_NoGet(c, k) ==
    /\ pc[c] = "lookup"
    /\ seen' = [seen EXCEPT ![c] = IF k \in Ids THEN ObjectArray[k] ELSE NoObject]
    /\ UNCHANGED <<refs, alloc>>
    /\ Goto(c, "lkPut")
    /\ UNCHANGED <<ObjectArray, id, lobj, halted>>

ObjLookup(c, k) ==
    /\ pc[c] = "lookup"
    /\ seen' = [seen EXCEPT ![c] = IF k \in Ids THEN ObjectArray[k] ELSE NoObject]
    /\ IF k \in Ids /\ ObjectArray[k] # NoObject
       THEN Get(ObjectArray[k])
       ELSE UNCHANGED <<refs, alloc>>
    /\ Goto(c, "lkPut")
    /\ UNCHANGED <<ObjectArray, id, lobj, halted>>

\* The client is done with the looked-up object and drops it; it removes
\* its own id only if its insert got one.
LookupPut(c) ==
    /\ pc[c] = "lkPut"
    /\ PutIfAny(seen[c])
    /\ Goto(c, IF id[c] \in Ids THEN "remove" ELSE "release")
    /\ UNCHANGED <<ObjectArray, id, seen, lobj, halted>>

-----------------------------------------------------------------------------
(* ObjectTable::Remove: under the lock the slot is swapped with nullptr;  *)
(* the object is Put after the lock is released.                           *)
\* Mutation: the slot is read but not cleared.
ObjRemove_NoClear(c) ==
    /\ pc[c] = "remove"
    /\ lobj' = [lobj EXCEPT ![c] = ObjectArray[id[c]]]
    /\ Goto(c, "rmPut")
    /\ UNCHANGED <<ObjectArray, refs, alloc, id, seen, halted>>

ObjRemove(c) ==
    /\ pc[c] = "remove"
    /\ lobj' = [lobj EXCEPT ![c] = ObjectArray[id[c]]]
    /\ ObjectArray' = [ObjectArray EXCEPT ![id[c]] = NoObject]
    /\ Goto(c, "rmPut")
    /\ UNCHANGED <<refs, alloc, id, seen, halted>>

ObjRemovePut(c) ==
    /\ pc[c] = "rmPut"
    /\ PutIfAny(lobj[c])
    /\ lobj' = [lobj EXCEPT ![c] = NoObject]
    /\ Goto(c, "release")
    /\ UNCHANGED <<ObjectArray, id, seen, halted>>

\* The owner drops the reference the constructor gave it.
Release(c) ==
    /\ pc[c] = "release"
    /\ Put(c)
    /\ Goto(c, "done")
    /\ UNCHANGED <<ObjectArray, id, seen, lobj, halted>>

-----------------------------------------------------------------------------
(* ObjectTable::~ObjectTable: every slot is cleared and its object Put,    *)
(* without the lock, by the only CPU still running.                        *)
Destroy ==
    /\ Finalize
    /\ halted' = TRUE
    /\ ObjectArray' = [k \in Ids |-> NoObject]
    /\ PutSet({ObjectArray[k] : k \in Ids} \ {NoObject})
    /\ UNCHANGED <<pc, id, seen, lobj>>

Init ==
    /\ ObjectArray = [k \in Ids |-> NoObject]
    /\ refs = [o \in Clients |-> 1]               \* RefCounter.Set(1)
    /\ alloc = [o \in Clients |-> "live"]
    /\ pc = [c \in Clients |-> "new"]
    /\ id = [c \in Clients |-> InvalidObjectId]
    /\ seen = [c \in Clients |-> NoObject]
    /\ lobj = [c \in Clients |-> NoObject]
    /\ halted = FALSE

Client(c) ==
    /\ ~halted
    /\ \/ ObjInsertGet(c) \/ ObjInsertScan(c) \/ ObjInsertFull(c) \/ ObjInsertPut(c)
       \/ \E k \in 0 .. MaxObjects : ObjLookup(c, k)
       \/ LookupPut(c) \/ ObjRemove(c) \/ ObjRemovePut(c) \/ Release(c)

\* Every client done, or every other CPU halted.
Quiescent ==
    /\ halted \/ \A c \in Clients : pc[c] = "done"
    /\ UNCHANGED vars

Next == (\E c \in Clients : Client(c)) \/ (~halted /\ Destroy) \/ Quiescent

Spec == Init /\ [][Next]_vars /\ \A c \in Clients : WF_vars(Client(c))

-----------------------------------------------------------------------------
(* Properties                                                              *)

\* Spec 8.1: an object's counter equals the references held on it: its
\* owner's, the insert's Get not yet stored or undone, one per slot, one
\* per Lookup result not yet Put, one per object Remove swapped out and
\* has not Put; and the object is freed exactly when that count is zero.
\* This covers a Lookup racing a Remove whose Put runs after the unlock,
\* and the destructor running while halted CPUs still hold references.
Holders(o) ==
    (IF pc[o] # "done" THEN 1 ELSE 0)
    + (IF pc[o] \in {"insLock", "insPut"} THEN 1 ELSE 0)
    + Cardinality({k \in Ids : ObjectArray[k] = o})
    + Cardinality({d \in Clients : pc[d] = "lkPut" /\ seen[d] = o})
    + Cardinality({d \in Clients : pc[d] = "rmPut" /\ lobj[d] = o})

RefsExact ==
    \A o \in Clients :
        /\ refs[o] = Holders(o)
        /\ (alloc[o] = "freed") = (refs[o] = 0)

\* The table implements the atomic specification of spec 8.2: each
\* operation takes effect at its critical section (Insert's scan, Lookup's
\* read, Remove's swap), and each client, unless halted, gets through.
AbsOp(c) ==
    CASE pc[c] \in {"new", "insLock"}   -> "insert"
      [] pc[c] \in {"insPut", "lookup"} -> "lookup"
      [] pc[c] \in {"lkPut", "remove"}  -> IF id[c] \in Ids THEN "remove" ELSE "done"
      [] OTHER                          -> "done"

AOT == INSTANCE ObjectTableSpec
         WITH table <- ObjectArray, op <- [c \in Clients |-> AbsOp(c)],
              slot <- id, seen <- seen, halted <- halted

ImplementsObjectTableSpec == AOT!Spec
=============================================================================
