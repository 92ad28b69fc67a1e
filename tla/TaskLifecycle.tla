--------------------------- MODULE TaskLifecycle ---------------------------
(***************************************************************************)
(* Lifetime of kernel tasks in nos (src/kernel/task.cpp,                   *)
(* src/kernel/object_table.cpp, src/kernel/test.cpp).                      *)
(*                                                                         *)
(* Every CPU runs TestMultiTasking in its boot task (the "creator" of that *)
(* CPU): it constructs NTasks Task objects, starts them, waits for each to *)
(* reach StateExited and drops its reference.  Task::Start registers the   *)
(* task in the TaskTable (a pid slot of the embedded ObjectTable plus a    *)
(* hash-bucket list) and enqueues it on a TaskQueue.  A started task runs  *)
(* its function, then Task::Exit unregisters it and calls Schedule, after  *)
(* which the queue drops it.  Each holder owns one reference; the last     *)
(* Put releases the stack and frees the object.                            *)
(*                                                                         *)
(* Creators of different CPUs and the tasks run in parallel; every step    *)
(* below is one atomic access to shared state (an atomic counter update or *)
(* a critical section under one spin lock).  Timer preemption is on while  *)
(* the tests run (BpStartup calls PreemptOn first), so the steps of tasks  *)
(* sharing a CPU interleave as freely as those of different CPUs.          *)
(***************************************************************************)
EXTENDS Naturals, FiniteSets, Functions, FiniteSetsExt

CONSTANTS
    CPUs,            \* the CPUs; each runs one creator
    BP,              \* the bootstrap processor; its boot task got pid 0
    NTasks,          \* size of the task array of TestMultiTasking (2 in the code)
    MaxObjects,      \* capacity of the TaskTable's ObjectTable
    NBuckets,        \* ArraySize(TaskTable::TaskList)
    AllocCanFail,    \* whether "new Task" / "new Stack" may return nullptr
    ShellPs,         \* whether the shell runs TaskTable::Ps (it starts after the BP's test)
    Shutdown,        \* whether the user may type "exit" (Exit, __cxa_finalize)
    InvalidObjectId, \* the pid of a task that is not in the table
    NoObject,        \* an empty ObjectArray slot (nullptr)
    NoQueue          \* Task::TaskQueue == nullptr

ASSUME /\ BP \in CPUs
       /\ NTasks \in Nat \ {0}
       /\ MaxObjects \in Nat /\ MaxObjects >= Cardinality(CPUs)
       /\ NBuckets \in Nat \ {0}
       /\ AllocCanFail \in BOOLEAN
       /\ ShellPs \in BOOLEAN
       /\ Shutdown \in BOOLEAN

SlotIds   == 0 .. MaxObjects - 1
Buckets   == 0 .. NBuckets - 1
BootTask(c) == <<c, 0>>            \* the task Cpu::Run installed on c
Tk(c, k)  == <<c, k>>              \* task[k-1] of the creator on c
TestTasks == {Tk(c, k) : c \in CPUs, k \in 1 .. NTasks}
AllTasks  == TestTasks \cup {BootTask(c) : c \in CPUs}

VARIABLES
    alloc,       \* "unborn" | "live" | "freed": the Task object's memory
    refs,        \* Task::RefCounter
    State,       \* Task::State
    Stack,       \* Task::Stack != nullptr
    Pid,         \* Task::Pid (of the boot tasks too)
    TaskQueue,   \* Task::TaskQueue back-pointer (the CPU owning the queue)
    bucketOf,    \* HashPtr(task) % ArraySize(TaskList), fixed by the address
    ObjectArray, \* ObjectTable::ObjectArray of the TaskTable
    TaskList,    \* TaskTable::TaskList: the tasks linked in each bucket
    pc,          \* program counter of every creator and every test task
    i, j,        \* loop indices of TestMultiTasking
    result,      \* its return value
    lpid,        \* pid returned by ObjectTable::Insert to TaskTable::Insert
    lobj,        \* object swapped out by ObjectTable::Remove, not yet Put
    creatorRef,  \* the creator still owns the reference "new Task" gave it
    psNext,      \* TaskTable::Ps: the buckets it has still to print
    psOut,       \* the (task, pid) rows Ps has printed
    halted       \* Exit has stopped every other CPU and run the destructors

vars == <<alloc, refs, State, Stack, Pid, TaskQueue, bucketOf, ObjectArray,
          TaskList, pc, i, j, result, lpid, lobj, creatorRef, psNext, psOut, halted>>

TypeOK ==
    /\ alloc \in [TestTasks -> {"unborn", "live", "freed"}]
    /\ refs \in [TestTasks -> Nat]
    /\ State \in [TestTasks -> {"New", "Waiting", "Exited"}]
    /\ Stack \in [TestTasks -> BOOLEAN]
    /\ Pid \in [AllTasks -> SlotIds \cup {InvalidObjectId}]
    /\ TaskQueue \in [TestTasks -> CPUs \cup {NoQueue}]
    /\ bucketOf \in [AllTasks -> Buckets]
    /\ ObjectArray \in [SlotIds -> AllTasks \cup {NoObject}]
    /\ TaskList \in [Buckets -> SUBSET AllTasks]
    /\ i \in [CPUs -> 1 .. NTasks + 1]
    /\ j \in [CPUs -> 1 .. NTasks + 1]
    /\ result \in [CPUs -> BOOLEAN]
    /\ lpid \in [CPUs -> SlotIds \cup {InvalidObjectId}]
    /\ lobj \in [TestTasks -> AllTasks \cup {NoObject}]
    /\ creatorRef \in [TestTasks -> BOOLEAN]
    /\ psNext \in SUBSET Buckets
    /\ psOut \in SUBSET (AllTasks \X (SlotIds \cup {InvalidObjectId}))
    /\ halted \in BOOLEAN

-----------------------------------------------------------------------------
(* Reference counting: Task::Get and Task::Put.  The Put that drops the    *)
(* count to zero runs Task::Release (delete Stack) and "delete this".      *)

Get(t) == refs' = [refs EXCEPT ![t] = @ + 1]

\* Task::Release: delete Stack.
Release(t) == Stack' = [Stack EXCEPT ![t] = FALSE]

Put(t) ==
    /\ refs' = [refs EXCEPT ![t] = @ - 1]
    /\ IF refs[t] = 1
       THEN /\ Release(t)
            /\ alloc' = [alloc EXCEPT ![t] = "freed"]
       ELSE UNCHANGED <<alloc, Stack>>

\* Put of an ObjectArray entry: boot tasks never drop to zero, so only the
\* test tasks' counters are tracked.
PutObject(o) == IF o \in TestTasks THEN Put(o) ELSE UNCHANGED <<refs, alloc, Stack>>

Goto(th, l) == pc' = [pc EXCEPT ![th] = l]

Cur(c) == Tk(c, i[c])         \* task[i] of TestMultiTasking on c

-----------------------------------------------------------------------------
Init ==
    /\ alloc = [t \in TestTasks |-> "unborn"]
    /\ refs = [t \in TestTasks |-> 0]
    /\ State = [t \in TestTasks |-> "New"]
    /\ Stack = [t \in TestTasks |-> FALSE]
    /\ TaskQueue = [t \in TestTasks |-> NoQueue]
    /\ bucketOf \in [AllTasks -> Buckets]
    \* Task::Run -> PrepareStart -> TaskTable::Insert registered the boot
    \* tasks: the BP's first, the APs' as they came up, each in the first
    \* free pid slot and linked in its bucket.
    /\ \E order \in Bijection(CPUs, 0 .. Cardinality(CPUs) - 1) :
          /\ order[BP] = 0
          /\ ObjectArray = [s \in SlotIds |->
                IF \E c \in CPUs : order[c] = s
                THEN BootTask(CHOOSE c \in CPUs : order[c] = s)
                ELSE NoObject]
          /\ Pid = [t \in AllTasks |->
                IF t \in TestTasks THEN InvalidObjectId ELSE order[t[1]]]
    /\ TaskList = [b \in Buckets |->
                     {BootTask(c) : c \in {d \in CPUs : bucketOf[BootTask(d)] = b}}]
    /\ pc = [th \in CPUs \cup TestTasks |-> IF th \in CPUs THEN "new" ELSE "idle"]
    /\ i = [c \in CPUs |-> 1]
    /\ j = [c \in CPUs |-> 1]
    /\ result = [c \in CPUs |-> FALSE]
    /\ lpid = [c \in CPUs |-> InvalidObjectId]
    /\ lobj = [t \in TestTasks |-> NoObject]
    /\ creatorRef = [t \in TestTasks |-> FALSE]
    /\ psNext = Buckets
    /\ psOut = {}
    /\ halted = FALSE
-----------------------------------------------------------------------------
(***************************************************************************)
(* TestMultiTasking on CPU c (test.cpp), with Task::Start, PrepareStart,   *)
(* TaskTable::Insert and ObjectTable::Insert as steps of the creator.      *)
(***************************************************************************)
CreatorVars == <<i, j, result, lpid>>

\* task[i] = new Task(): RefCounter 1, Pid invalid, no stack, no queue.
NewTask(c) ==
    /\ pc[c] = "new" /\ i[c] <= NTasks
    /\ alloc' = [alloc EXCEPT ![Cur(c)] = "live"]
    /\ refs' = [refs EXCEPT ![Cur(c)] = 1]
    /\ creatorRef' = [creatorRef EXCEPT ![Cur(c)] = TRUE]
    /\ i' = [i EXCEPT ![c] = @ + 1]
    /\ UNCHANGED <<State, Stack, Pid, TaskQueue, bucketOf, ObjectArray, TaskList,
                   pc, j, result, lpid, lobj, psNext, psOut>>

NewTaskFails(c) ==
    /\ AllocCanFail
    /\ pc[c] = "new" /\ i[c] <= NTasks
    /\ Goto(c, "newFailPut")
    /\ j' = [j EXCEPT ![c] = 1]
    /\ UNCHANGED <<alloc, refs, State, Stack, Pid, TaskQueue, bucketOf, ObjectArray,
                   TaskList, i, result, lpid, lobj, creatorRef, psNext, psOut>>

\* for (j = 0; j < i; j++) task[j]->Put(); return false;
NewFailPut(c) ==
    /\ pc[c] = "newFailPut"
    /\ IF j[c] < i[c]
       THEN /\ Put(Tk(c, j[c]))
            /\ creatorRef' = [creatorRef EXCEPT ![Tk(c, j[c])] = FALSE]
            /\ j' = [j EXCEPT ![c] = @ + 1]
            /\ UNCHANGED <<pc, result>>
       ELSE /\ Goto(c, "done")
            /\ result' = [result EXCEPT ![c] = FALSE]
            /\ UNCHANGED <<refs, alloc, Stack, creatorRef, j>>
    /\ UNCHANGED <<State, Pid, TaskQueue, bucketOf, ObjectArray, TaskList, i, lpid,
                   lobj, psNext, psOut>>

\* End of the construction loop; the start loop begins with i = 0.
NewTaskDone(c) ==
    /\ pc[c] = "new" /\ i[c] = NTasks + 1
    /\ Goto(c, "start")
    /\ i' = [i EXCEPT ![c] = 1]
    /\ UNCHANGED <<alloc, refs, State, Stack, Pid, TaskQueue, bucketOf, ObjectArray,
                   TaskList, j, result, lpid, lobj, creatorRef, psNext, psOut>>

\* Task::PrepareStart: Stack = new struct Stack(this).
StartStack(c) ==
    /\ pc[c] = "start" /\ i[c] <= NTasks
    /\ Stack' = [Stack EXCEPT ![Cur(c)] = TRUE]
    /\ Goto(c, "objInsert")
    /\ UNCHANGED <<alloc, refs, State, Pid, TaskQueue, bucketOf, ObjectArray,
                   TaskList, CreatorVars, lobj, creatorRef, psNext, psOut>>

\* The stack allocation fails: Start returns false; TestMultiTasking waits
\* for the tasks already started and puts them all.
StartStackFails(c) ==
    /\ AllocCanFail
    /\ pc[c] = "start" /\ i[c] <= NTasks
    /\ Goto(c, "failWait")
    /\ j' = [j EXCEPT ![c] = 1]
    /\ UNCHANGED <<alloc, refs, State, Stack, Pid, TaskQueue, bucketOf, ObjectArray,
                   TaskList, i, result, lpid, lobj, creatorRef, psNext, psOut>>

FreeSlots == {s \in SlotIds : ObjectArray[s] = NoObject}

\* Mutation: the scan runs one slot past the end of ObjectArray
\* (objectId <= ArraySize), so a full table hands out pid MaxObjects.
ObjInsertScan_PastEnd(c) ==
    LET free == FreeSlots \cup {MaxObjects} IN
    /\ pc[c] = "objInsert"
    /\ Get(Cur(c))
    /\ ObjectArray' = [ObjectArray EXCEPT ![Min(free)] = Cur(c)]
    /\ lpid' = [lpid EXCEPT ![c] = Min(free)]
    /\ Goto(c, "setPid")
    /\ UNCHANGED <<alloc, State, Stack, Pid, TaskQueue, bucketOf, TaskList,
                   i, j, result, lobj, creatorRef, psNext, psOut>>

\* ObjectTable::Insert, called by TaskTable::Insert: object->Get(), then
\* under the table lock store the task in the first empty slot.  The Get
\* is on a task no other thread can reach yet, so it is taken in the same
\* step as the locked scan.
ObjInsertScan(c) ==
    /\ pc[c] = "objInsert"
    /\ FreeSlots # {}
    /\ Get(Cur(c))
    /\ ObjectArray' = [ObjectArray EXCEPT ![Min(FreeSlots)] = Cur(c)]
    /\ lpid' = [lpid EXCEPT ![c] = Min(FreeSlots)]
    /\ Goto(c, "setPid")
    /\ UNCHANGED <<alloc, State, Stack, Pid, TaskQueue, bucketOf, TaskList,
                   i, j, result, lobj, creatorRef, psNext, psOut>>

\* Mutation: the full-table path returns without object->Put().
ObjInsertFull_NoPut(c) ==
    /\ pc[c] = "objInsert"
    /\ FreeSlots = {}
    /\ Get(Cur(c))
    /\ Goto(c, "insertFailed")
    /\ UNCHANGED <<alloc, State, Stack, Pid, TaskQueue, bucketOf, ObjectArray,
                   TaskList, CreatorVars, lobj, creatorRef, psNext, psOut>>

\* No slot is free: the reference taken is dropped again (object->Put())
\* and InvalidObjectId is returned.
ObjInsertFull(c) ==
    /\ pc[c] = "objInsert"
    /\ FreeSlots = {}
    /\ Goto(c, "insertFailed")
    /\ UNCHANGED <<alloc, refs, State, Stack, Pid, TaskQueue, bucketOf, ObjectArray,
                   TaskList, CreatorVars, lobj, creatorRef, psNext, psOut>>

\* Mutation: PrepareStart returns false without deleting the stack.
PrepareStartFails_KeepStack(c) ==
    /\ pc[c] = "insertFailed"
    /\ Goto(c, "failWait")
    /\ j' = [j EXCEPT ![c] = 1]
    /\ UNCHANGED <<alloc, refs, State, Stack, Pid, TaskQueue, bucketOf, ObjectArray,
                   TaskList, i, result, lpid, lobj, creatorRef, psNext, psOut>>

\* TaskTable::Insert returned false: PrepareStart deletes the stack and
\* Start returns false.
PrepareStartFails(c) ==
    /\ pc[c] = "insertFailed"
    /\ Stack' = [Stack EXCEPT ![Cur(c)] = FALSE]
    /\ Goto(c, "failWait")
    /\ j' = [j EXCEPT ![c] = 1]
    /\ UNCHANGED <<alloc, refs, State, Pid, TaskQueue, bucketOf, ObjectArray,
                   TaskList, i, result, lpid, lobj, creatorRef, psNext, psOut>>

\* Mutation: TaskTable::Insert links the task without task->Get().
SetPid_NoGet(c) ==
    /\ pc[c] = "setPid"
    /\ Pid' = [Pid EXCEPT ![Cur(c)] = lpid[c]]
    /\ Goto(c, "bucket")
    /\ UNCHANGED <<alloc, refs, State, Stack, TaskQueue, bucketOf, ObjectArray, TaskList,
                   CreatorVars, lobj, creatorRef, psNext, psOut>>

\* TaskTable::Insert: task->Pid = pid; task->Get().
SetPid(c) ==
    /\ pc[c] = "setPid"
    /\ Pid' = [Pid EXCEPT ![Cur(c)] = lpid[c]]
    /\ Get(Cur(c))
    /\ Goto(c, "bucket")
    /\ UNCHANGED <<alloc, State, Stack, TaskQueue, bucketOf, ObjectArray, TaskList,
                   CreatorVars, lobj, creatorRef, psNext, psOut>>

\* Under the bucket lock: TaskList[i].InsertTail(&task->TableListEntry).
BucketInsert(c) ==
    /\ pc[c] = "bucket"
    /\ TaskList' = [TaskList EXCEPT ![bucketOf[Cur(c)]] = @ \cup {Cur(c)}]
    /\ Goto(c, "enqueue")
    /\ UNCHANGED <<alloc, refs, State, Stack, Pid, TaskQueue, bucketOf, ObjectArray,
                   CreatorVars, lobj, creatorRef, psNext, psOut>>

\* The rest of Task::Start: the initial frame, State = Waiting, then
\* SelectNextTaskQueue()->Insert(this).  Placement only decides which CPU
\* runs the task, which no property here depends on; module Placement
\* checks the selection itself.
CandidateQueues(t) == {q \in CPUs : q # TaskQueue[t]}

\* Mutation: the queue links the task without taking a reference.
TaskQueueInsert_NoRef(t, q) ==
    /\ TaskQueue' = [TaskQueue EXCEPT ![t] = q]
    /\ UNCHANGED refs

TaskQueueInsert(t, q) ==
    /\ TaskQueue' = [TaskQueue EXCEPT ![t] = q]
    /\ Get(t)

Enqueue(c) ==
    /\ pc[c] = "enqueue"
    /\ State' = [State EXCEPT ![Cur(c)] = "Waiting"]
    /\ \E q \in CandidateQueues(Cur(c)) : TaskQueueInsert(Cur(c), q)
    /\ pc' = [pc EXCEPT ![c] = "start", ![Cur(c)] = "queued"]
    /\ i' = [i EXCEPT ![c] = @ + 1]
    /\ UNCHANGED <<alloc, Stack, Pid, bucketOf, ObjectArray, TaskList, j, result,
                   lpid, lobj, creatorRef, psNext, psOut>>

StartDone(c) ==
    /\ pc[c] = "start" /\ i[c] = NTasks + 1
    /\ Goto(c, "wait")
    /\ j' = [j EXCEPT ![c] = 1]
    /\ UNCHANGED <<alloc, refs, State, Stack, Pid, TaskQueue, bucketOf, ObjectArray,
                   TaskList, i, result, lpid, lobj, creatorRef, psNext, psOut>>

\* Task::Wait: "while (State.Get() != StateExited) Sleep(1ms)".  The loop
\* only reads the state, so it is the step that finds it Exited.
Exited(t) == State[t] = "Exited"

\* Mutation: the failure path skips the Wait of the tasks it started.
FailWait_NoPoll(c) ==
    /\ pc[c] = "failWait"
    /\ Goto(c, "putAll")
    /\ j' = [j EXCEPT ![c] = 1]
    /\ result' = [result EXCEPT ![c] = FALSE]
    /\ UNCHANGED <<alloc, refs, State, Stack, Pid, TaskQueue, bucketOf, ObjectArray,
                   TaskList, i, lpid, lobj, creatorRef, psNext, psOut>>

\* Start of task[i] failed: for (j = 0; j < i; j++) task[j]->Wait().
FailWait(c) ==
    /\ pc[c] = "failWait"
    /\ IF j[c] < i[c]
       THEN /\ Exited(Tk(c, j[c]))
            /\ j' = [j EXCEPT ![c] = @ + 1]
            /\ UNCHANGED <<pc, result>>
       ELSE /\ Goto(c, "putAll")
            /\ j' = [j EXCEPT ![c] = 1]
            /\ result' = [result EXCEPT ![c] = FALSE]
    /\ UNCHANGED <<alloc, refs, State, Stack, Pid, TaskQueue, bucketOf, ObjectArray,
                   TaskList, i, lpid, lobj, creatorRef, psNext, psOut>>

\* Mutation: Task::Wait returns without looking at State.
Wait_NoPoll(c) ==
    /\ pc[c] = "wait"
    /\ IF j[c] <= NTasks
       THEN /\ j' = [j EXCEPT ![c] = @ + 1]
            /\ UNCHANGED <<pc, result>>
       ELSE /\ Goto(c, "putAll")
            /\ j' = [j EXCEPT ![c] = 1]
            /\ result' = [result EXCEPT ![c] = TRUE]
    /\ UNCHANGED <<alloc, refs, State, Stack, Pid, TaskQueue, bucketOf, ObjectArray,
                   TaskList, i, lpid, lobj, creatorRef, psNext, psOut>>

\* All started: for (i = 0; i < 2; i++) task[i]->Wait(); result = true.
Wait(c) ==
    /\ pc[c] = "wait"
    /\ IF j[c] <= NTasks
       THEN /\ Exited(Tk(c, j[c]))
            /\ j' = [j EXCEPT ![c] = @ + 1]
            /\ UNCHANGED <<pc, result>>
       ELSE /\ Goto(c, "putAll")
            /\ j' = [j EXCEPT ![c] = 1]
            /\ result' = [result EXCEPT ![c] = TRUE]
    /\ UNCHANGED <<alloc, refs, State, Stack, Pid, TaskQueue, bucketOf, ObjectArray,
                   TaskList, i, lpid, lobj, creatorRef, psNext, psOut>>

\* Mutation: the delTasks loop stops one task early.
PutAll_SkipLast(c) ==
    /\ pc[c] = "putAll"
    /\ IF j[c] < NTasks
       THEN /\ Put(Tk(c, j[c]))
            /\ creatorRef' = [creatorRef EXCEPT ![Tk(c, j[c])] = FALSE]
            /\ j' = [j EXCEPT ![c] = @ + 1]
            /\ UNCHANGED pc
       ELSE /\ Goto(c, "done")
            /\ UNCHANGED <<refs, alloc, Stack, creatorRef, j>>
    /\ UNCHANGED <<State, Pid, TaskQueue, bucketOf, ObjectArray, TaskList, i, result,
                   lpid, lobj, psNext, psOut>>

\* delTasks: for (i = 0; i < 2; i++) task[i]->Put(); return result.
PutAll(c) ==
    /\ pc[c] = "putAll"
    /\ IF j[c] <= NTasks
       THEN /\ Put(Tk(c, j[c]))
            /\ creatorRef' = [creatorRef EXCEPT ![Tk(c, j[c])] = FALSE]
            /\ j' = [j EXCEPT ![c] = @ + 1]
            /\ UNCHANGED pc
       ELSE /\ Goto(c, "done")
            /\ UNCHANGED <<refs, alloc, Stack, creatorRef, j>>
    /\ UNCHANGED <<State, Pid, TaskQueue, bucketOf, ObjectArray, TaskList, i, result,
                   lpid, lobj, psNext, psOut>>

-----------------------------------------------------------------------------
(***************************************************************************)
(* A started test task t: the trampoline, the task function, Task::Exit    *)
(* with TaskTable::Remove and ObjectTable::Remove, and the final Schedule. *)
(***************************************************************************)
TaskOnly == <<i, j, result, lpid, bucketOf, creatorRef, psNext, psOut>>

\* The scheduler switches to the task; Task::Exec -> ExecCallback runs
\* Function(Ctx), then Task::Exit: State.Set(StateExited).
\* TestMultiTaskingTaskFunc only traces and sleeps, which changes nothing
\* another thread reads.
Exec(t) ==
    /\ pc[t] = "queued"
    /\ State' = [State EXCEPT ![t] = "Exited"]
    /\ Goto(t, "rmObj")
    /\ UNCHANGED <<alloc, refs, Stack, Pid, TaskQueue, ObjectArray, TaskList, lobj,
                   TaskOnly>>

\* Mutation: ObjectTable::Remove reads the slot but never clears it.
ObjRemove_KeepSlot(t) ==
    /\ pc[t] = "rmObj"
    /\ IF Pid[t] \in SlotIds
       THEN /\ lobj' = [lobj EXCEPT ![t] = ObjectArray[Pid[t]]]
            /\ Goto(t, "rmPut")
       ELSE /\ Goto(t, "rmList")
            /\ UNCHANGED lobj
    /\ UNCHANGED <<alloc, refs, State, Stack, Pid, TaskQueue, ObjectArray, TaskList,
                   TaskOnly>>

\* TaskTable::Remove -> ObjectTable::Remove(task->Pid): under the table
\* lock swap the slot to nullptr; an out-of-range id returns at once.
ObjRemove(t) ==
    /\ pc[t] = "rmObj"
    /\ IF Pid[t] \in SlotIds
       THEN /\ lobj' = [lobj EXCEPT ![t] = ObjectArray[Pid[t]]]
            /\ ObjectArray' = [ObjectArray EXCEPT ![Pid[t]] = NoObject]
            /\ Goto(t, "rmPut")
       ELSE /\ Goto(t, "rmList")
            /\ UNCHANGED <<lobj, ObjectArray>>
    /\ UNCHANGED <<alloc, refs, State, Stack, Pid, TaskQueue, TaskList, TaskOnly>>

\* Mutation: ObjectTable::Remove drops the swapped-out pointer unPut.
ObjRemovePut_NoPut(t) ==
    /\ pc[t] = "rmPut"
    /\ lobj' = [lobj EXCEPT ![t] = NoObject]
    /\ Goto(t, "rmList")
    /\ UNCHANGED <<refs, alloc, Stack, State, Pid, TaskQueue, ObjectArray, TaskList, TaskOnly>>

\* After the lock is released: if (object != nullptr) object->Put().
ObjRemovePut(t) ==
    /\ pc[t] = "rmPut"
    /\ IF lobj[t] # NoObject THEN PutObject(lobj[t])
                             ELSE UNCHANGED <<refs, alloc, Stack>>
    /\ lobj' = [lobj EXCEPT ![t] = NoObject]
    /\ Goto(t, "rmList")
    /\ UNCHANGED <<State, Pid, TaskQueue, ObjectArray, TaskList, TaskOnly>>

\* Under the bucket lock: task->TableListEntry.RemoveInit().
BucketRemove(t) ==
    /\ pc[t] = "rmList"
    /\ TaskList' = [TaskList EXCEPT ![bucketOf[t]] = @ \ {t}]
    /\ Goto(t, "rmTaskPut")
    /\ UNCHANGED <<alloc, refs, State, Stack, Pid, TaskQueue, ObjectArray, lobj,
                   TaskOnly>>

\* Mutation: TaskTable::Remove forgets the task->Put() matching the Get
\* of TaskTable::Insert.
TableRemovePut_NoPut(t) ==
    /\ pc[t] = "rmTaskPut"
    /\ Goto(t, "schedule")
    /\ UNCHANGED <<refs, alloc, Stack, State, Pid, TaskQueue, ObjectArray, TaskList,
                   lobj, TaskOnly>>

\* The end of TaskTable::Remove: task->Put().
TableRemovePut(t) ==
    /\ pc[t] = "rmTaskPut"
    /\ Put(t)
    /\ Goto(t, "schedule")
    /\ UNCHANGED <<State, Pid, TaskQueue, ObjectArray, TaskList, lobj, TaskOnly>>

\* Schedule() from Task::Exit never returns: the CPU switches to another
\* task, and its queue unlinks the exited task and drops the queue's
\* reference (TaskQueue::Remove clears the back-pointer).
TaskQueueRemove(t) ==
    /\ TaskQueue' = [TaskQueue EXCEPT ![t] = NoQueue]
    /\ Put(t)

ExitSchedule(t) ==
    /\ pc[t] = "schedule"
    /\ TaskQueueRemove(t)
    /\ Goto(t, "gone")
    /\ UNCHANGED <<State, Pid, ObjectArray, TaskList, lobj, TaskOnly>>

-----------------------------------------------------------------------------
(* TaskTable::Ps: for each bucket in turn, under that bucket's lock only,  *)
(* print the pid of every task linked in it.  The shell that runs it is    *)
(* started by BpStartup only once the BP's TestMultiTasking has returned   *)
(* true; the APs' tests may still be running.  Ps is run once.            *)
Ps ==
    /\ ShellPs
    /\ pc[BP] = "done" /\ result[BP]
    /\ psNext # {}
    /\ LET b == Min(psNext) IN
         /\ psOut' = psOut \cup {<<t, Pid[t]>> : t \in TaskList[b]}
         /\ psNext' = psNext \ {b}
    /\ UNCHANGED <<alloc, refs, State, Stack, Pid, TaskQueue, bucketOf, ObjectArray,
                   TaskList, pc, i, j, result, lpid, lobj, creatorRef>>

-----------------------------------------------------------------------------
(***************************************************************************)
(* Exit (main.cpp), reached by BpStartup once its TestMultiTasking has     *)
(* succeeded and the shell has stopped: ExitAllExceptSelf halts every      *)
(* other CPU wherever it is (never inside a spin-locked section, which     *)
(* runs with interrupts off), PreemptDisable freezes the BP's other tasks, *)
(* and __cxa_finalize runs ~TaskTable, which moves each bucket's list out  *)
(* under its lock and Puts every task, and then the destructor of its      *)
(* member TaskObjectTable, which Puts every slot's object.  Only the BP   *)
(* runs from here on, so the destructors are one step.                     *)
(***************************************************************************)
\* The references the two destructors drop from task t.
TableRefs(t) ==
    Cardinality({b \in Buckets : t \in TaskList[b]})
    + Cardinality({s \in SlotIds : ObjectArray[s] = t})

\* Mutation: ~ObjectTable clears the slots without Putting their objects.
ExitFinalize_NoObjectPut ==
    LET drop(t) == Cardinality({b \in Buckets : t \in TaskList[b]}) IN
    /\ Shutdown /\ ~halted
    /\ pc[BP] = "done" /\ result[BP]
    /\ psNext \in {{}, Buckets}
    /\ halted' = TRUE
    /\ TaskList' = [b \in Buckets |-> {}]
    /\ ObjectArray' = [s \in SlotIds |-> NoObject]
    /\ refs' = [t \in TestTasks |-> refs[t] - drop(t)]
    /\ alloc' = [t \in TestTasks |->
                   IF drop(t) > 0 /\ refs[t] = drop(t) THEN "freed" ELSE alloc[t]]
    /\ Stack' = [t \in TestTasks |-> Stack[t] /\ alloc'[t] # "freed"]
    /\ UNCHANGED <<State, Pid, TaskQueue, bucketOf, pc, i, j, result, lpid, lobj,
                   creatorRef, psNext, psOut>>

ExitFinalize ==
    /\ Shutdown /\ ~halted
    /\ pc[BP] = "done" /\ result[BP]
    /\ psNext \in {{}, Buckets}
    /\ halted' = TRUE
    /\ TaskList' = [b \in Buckets |-> {}]
    /\ ObjectArray' = [s \in SlotIds |-> NoObject]
    /\ refs' = [t \in TestTasks |-> refs[t] - TableRefs(t)]
    /\ alloc' = [t \in TestTasks |->
                   IF TableRefs(t) > 0 /\ refs[t] = TableRefs(t) THEN "freed" ELSE alloc[t]]
    /\ Stack' = [t \in TestTasks |-> Stack[t] /\ alloc'[t] # "freed"]
    /\ UNCHANGED <<State, Pid, TaskQueue, bucketOf, pc, i, j, result, lpid, lobj,
                   creatorRef, psNext, psOut>>

-----------------------------------------------------------------------------
Creator(c) ==
    \/ NewTask(c) \/ NewTaskFails(c) \/ NewFailPut(c) \/ NewTaskDone(c)
    \/ StartStack(c) \/ StartStackFails(c) \/ ObjInsertScan(c) \/ ObjInsertFull(c) \/ PrepareStartFails(c)
    \/ SetPid(c) \/ BucketInsert(c) \/ Enqueue(c) \/ StartDone(c)
    \/ FailWait(c) \/ Wait(c) \/ PutAll(c)

TaskStep(t) ==
    \/ Exec(t) \/ ObjRemove(t) \/ ObjRemovePut(t)
    \/ BucketRemove(t) \/ TableRemovePut(t) \/ ExitSchedule(t)

\* Every creator has returned and every task it started has left its
\* queue: the CPUs idle from here on.
Finished ==
    /\ \A c \in CPUs : pc[c] = "done"
    /\ \A t \in TestTasks : pc[t] \in {"idle", "gone"}

\* Before Exit every thread runs; after it none does.
CreatorRun(c) == ~halted /\ Creator(c) /\ UNCHANGED halted
TaskRun(t)    == ~halted /\ TaskStep(t) /\ UNCHANGED halted

Next ==
    \/ \E c \in CPUs : CreatorRun(c)
    \/ \E t \in TestTasks : TaskRun(t)
    \/ ~halted /\ Ps /\ UNCHANGED halted
    \/ ExitFinalize
    \/ (Finished \/ halted) /\ UNCHANGED vars

\* The timer interrupt and Schedule's round robin keep every task on a
\* queue running, and each creator keeps polling in Task::Wait.
Fairness ==
    /\ \A c \in CPUs : WF_vars(CreatorRun(c))
    /\ \A t \in TestTasks : WF_vars(TaskRun(t))

Spec == Init /\ [][Next]_vars /\ Fairness

\* Which CPU's queue a task sits on influences no later step of this model
\* (a started task is never placed again), so states that differ only in
\* it are explored once.
QueueBlindView ==
    <<alloc, refs, State, Stack, Pid, [t \in TestTasks |-> TaskQueue[t] # NoQueue],
      bucketOf, ObjectArray, TaskList, pc, i, j, result, lpid, lobj, creatorRef,
      psNext, psOut, halted>>

-----------------------------------------------------------------------------
(***************************************************************************)
(* Properties                                                              *)
(***************************************************************************)

\* No use after free: when the last Put frees a task (Task::Release
\* deletes its stack, then "delete this"), nothing can reach it any more:
\* it is in no ObjectArray slot, no TaskList bucket and no TaskQueue, no
\* ObjectTable::Remove is about to Put it, its creator has dropped its
\* pointer, and no code of the task still runs on the freed stack (it has
\* switched away for good in the Schedule of Task::Exit).
NoUseAfterFree ==
    \A t \in TestTasks : alloc[t] = "freed" =>
        /\ t \notin Range(ObjectArray)
        /\ \A b \in Buckets : t \notin TaskList[b]
        /\ TaskQueue[t] = NoQueue
        /\ \A u \in TestTasks : lobj[u] # t
        /\ ~creatorRef[t]
        /\ pc[t] \in {"idle", "gone"}

\* Spec 8.1: a task's RefCounter equals the references held on it, and it
\* is freed exactly when that count reaches zero.  The holders are the
\* creator (until its Put in PutAll or the new-failure loop), each pid
\* slot, its bucket, its TaskQueue, an ObjectTable::Remove that swapped it
\* out and has not Put it yet, TaskTable::Insert between its Get and the
\* bucket link, and TaskTable::Remove between the unlink and its Put.  It
\* also holds after Exit, whose destructors Put what the tables held while
\* the halted threads keep their own references.
Holders(t) ==
    (IF creatorRef[t] THEN 1 ELSE 0)
    + Cardinality({s \in SlotIds : ObjectArray[s] = t})
    + Cardinality({b \in Buckets : t \in TaskList[b]})
    + (IF TaskQueue[t] # NoQueue THEN 1 ELSE 0)
    + Cardinality({u \in TestTasks : lobj[u] = t})
    + Cardinality({c \in CPUs : pc[c] = "bucket" /\ Cur(c) = t})
    + (IF pc[t] = "rmTaskPut" THEN 1 ELSE 0)

RefsExact ==
    \A t \in TestTasks :
        /\ refs[t] = Holders(t)
        /\ (alloc[t] = "live") = (refs[t] > 0)

\* A failed Task::Start leaves no partial state (spec 4.8): at the step
\* where Start returns false the task is in no pid slot, bucket or queue,
\* its stack has been deleted and only the creator's reference is left,
\* so the creator's final Put frees it.
StartFailsCleanly ==
    [][\A c \in CPUs :
         (pc'[c] = "failWait" /\ pc[c] # "failWait") =>
            LET t == Cur(c) IN
              /\ t \notin Range(ObjectArray')
              /\ \A b \in Buckets : t \notin TaskList'[b]
              /\ TaskQueue'[t] = NoQueue
              /\ ~Stack'[t]
              /\ refs'[t] = 1]_vars

\* Every TestMultiTasking returns, on the success path and on every
\* failure path, and every task constructed has then been freed: no
\* reference is leaked by the tables, the queues or the creators.
AllTasksReclaimed ==
    <>(Finished /\ \A t \in TestTasks : alloc[t] # "live")

\* TaskLifecycle implements TaskLifeSpec: a task's abstract life is read
\* off its memory and its State (Task::Start sets Waiting, Task::Exit sets
\* Exited); a Start that fails leaves it New.  The creator's reference is
\* creatorRef.  This checks that the creator starts only tasks it holds,
\* Puts a task only after Task::Wait saw it Exited (or it never started),
\* that no other Put frees a task before that, and that every started task
\* exits and every task is freed.
AbsLife(t) ==
    CASE alloc[t] # "live"     -> alloc[t]
      [] State[t] = "Exited"   -> "exited"
      [] State[t] = "Waiting"  -> "started"
      [] OTHER                 -> "new"

ALife == INSTANCE TaskLifeSpec
           WITH Tasks <- TestTasks, life <- [t \in TestTasks |-> AbsLife(t)],
                held <- creatorRef

ImplementsTaskLifeSpec == ALife!TSpec

\* The pid column of Ps never shows one pid for two different tasks
\* (spec 3: a task is in its bucket exactly while its pid is valid).
PsPidsUnique ==
    \A r1, r2 \in psOut : r1[1] # r2[1] => r1[2] # r2[2]

=============================================================================
