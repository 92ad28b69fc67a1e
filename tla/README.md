# TLA+ models of the nos kernel

This directory holds TLA+ models of the multi-processor core of nos
(`src/kernel/`). TLC checks them. Each module is translated from the C++ source. Where the code
lives outside this repository (CpuTable, TaskQueue, the scheduler, the IPI
stubs, Panic), the module follows `spec.md`, and PROJECT.json marks those
definitions `spec_modelled`.

## The system and its parts

| Part | Source | What it does |
|------|--------|--------------|
| Boot and SMP bring-up | `main.cpp` Main, BpStartup, ApMain, ApStartup, Exit, ALLOC_CPU_STACK | The BP sets up the machine and hands itself to the task BpStartup. BpStartup starts the APs one at a time (StartAll), turns preemption on and releases the APs, which spin on `PreemptOnWaiting`. It then sends one test IPI to every running AP, runs TestMultiTasking, starts the shell, and on `exit` stops the other CPUs and halts. Each AP takes a boot stack, enables interrupts, publishes its running bit, waits to be released, runs TestMultiTasking and idles. |
| TestMultiTasking | `test.cpp` 261-319 | Runs on every CPU. It creates 2 tasks, starts them, waits for each to exit and Puts them. It has one failure path for `new` and one for `Start`. |
| Task | `task.cpp` 12-273 | Reference counting (Get/Put/Release), PrepareStart/Start, Exec/Exit, Wait, SetCpuAffinity and SelectNextTaskQueue (placement). |
| TaskTable | `task.cpp` 275-357 | Pid allocation through an ObjectTable, plus hash buckets of live tasks, each with its own lock. Ps lists the tasks. |
| ObjectTable | `object_table.cpp` | Fixed array of object pointers under one lock. Insert takes a reference. Remove drops it after the unlock. |

A task is shared by four holders: its creator, its ObjectTable slot, its TaskTable bucket
and its TaskQueue. Each holder owns one reference. The last Put frees the
task. Creators and tasks of several CPUs run at once, and timer preemption is on
during the tests, so all their steps interleave.

## Modules

* **TaskLifecycle.tla** models the lifetime of the test tasks on every CPU.
  * The variables mirror the Task fields: `refs`, `State`, `Stack`, `Pid` and `TaskQueue`. The TaskTable and ObjectTable state are `ObjectArray` and `TaskList`. The variable `alloc` records whether the object is live or freed.
  * Every creator (TestMultiTasking on one CPU) and every test task has a program counter. Its locals `i`, `j`, `result` and `lpid` are variables too.
  * Each action is one atomic access to shared state, which is one critical section or one atomic counter update:
    * NewTask / NewTaskFails / NewFailPut (test.cpp 277-288)
    * StartStack / StartStackFails (PrepareStart 121-125)
    * ObjInsertScan / ObjInsertFull (ObjectTable::Insert)
    * PrepareStartFails
    * SetPid, BucketInsert (TaskTable::Insert)
    * Enqueue (Start)
    * Wait, FailWait, PutAll
    * Exec (the function runs, then Exit sets StateExited)
    * ObjRemove and ObjRemovePut (ObjectTable::Remove, whose Put runs after the unlock)
    * BucketRemove, TableRemovePut (TaskTable::Remove)
    * ExitSchedule (the queue drops the exited task)
    * Ps (one bucket per step, as it locks them). The shell that runs it is started by BpStartup (main.cpp 229-237) only after the BP's TestMultiTasking has returned true, so Ps is enabled only from then on. The APs' tests and the BP's exiting test tasks may still be running.
    * ExitFinalize: `Exit` on the BP, once its TestMultiTasking has succeeded. ExitAllExceptSelf and PreemptDisable stop every other thread between two of its steps (`halted`). Then `__cxa_finalize` runs `~TaskTable`, which Puts every task linked in a bucket, and then the destructor of its member ObjectTable, which Puts every slot's object. Only the BP runs then, so the two destructors are one step.
  * In Init, the boot tasks fill the first table slots in the order their CPUs came up. Each is also linked in its bucket, as Task::Run -> PrepareStart -> TaskTable::Insert does. The bucket is a nondeterministic hash.
* **MC_TaskLifecycle.tla** gives the CPUs as model values.
* **Placement.tla** models `Task::SelectNextTaskQueue`.
  * `ScanBit` is one iteration of the bit loop, with the strict `>` comparison. The RECURSIVE `Scan` folds it over all bits and is checked against `LeastLoaded`, the reference definition taken from spec 4.4.
  * The actions are SetRunning, ContextSwitch (a counter bump), SetCpuAffinity, and Start in three steps: StartSelect reads `running & CpuAffinity` once, ScanStep runs one loop iteration with the counters of that moment, and StartInsert does the unchecked `taskQueue->Insert`.
  * The history variable `leastSeen` records which candidates had the lowest counter at some moment of each scan.
* **ObjectTable.tla** models all of `object_table.cpp` with the reference counts of the objects.
  * Each client owns one object. It inserts the object, looks up one id (an id out of range included), removes its id if it got one, and drops its own reference.
  * Insert is three steps: the Get, the locked scan, and the Put on a full table. Lookup is one locked step. Remove is the locked swap followed by the Put after the unlock.
  * `Destroy` is `~ObjectTable`, run on the only CPU left, while the clients are halted wherever they are.
* **ObjectTableSpec.tla** is the abstract table of spec 8.2: each operation is one atomic step, and every client that is not halted finishes. ObjectTable instances it with the mapping `table <- ObjectArray`. The mapping also takes each client's next abstract operation from its program counter, placing the linearization points at the critical sections.
* **TaskLifeSpec.tla** is the abstract lifetime of a task (spec 3 and 4), written as a state machine: unborn, new, started, exited, freed, plus whether the creator still holds its reference.
  * A task is started only by a creator that holds it. The creator drops its reference only while the task does not run, and a task is freed only then.
  * Every started task exits, and every task is eventually freed.
  * TaskLifecycle implements it through `ALife`. The abstract life is read off `alloc` and `State`, since Start sets Waiting and Exit sets Exited. A failed Start leaves the task New. The creator's reference maps to `creatorRef`.
* **Boot.tla** models main.cpp with one program counter per CPU.
  * Every failing set-up step, Run and test is a nondeterministic Panic, which halts every CPU.
  * StartAll is split into three steps: SIPI, wait for the running bit, and a timeout.
  * Interrupts are latched in `ipiPending` / `stopPending`. They are taken by TakeIpi / TakeStop once the CPU has IF set.
  * TestMultiTasking is a single step here. TaskLifecycle models its inside, and its ExitFinalize models what Exit's destructors do to the tasks.
  * `TaskRunResults` is the outcome of `Task::Run` for a CPU's boot task: PrepareStart may fail. BpStartup and ApStartup never return, so the rest of Run is never reached.

## Runs

| Run | Expect | What it shows |
|-----|--------|---------------|
| lifecycle_smp | pass | 2 CPUs, 2 tasks each, 4 slots, 1 bucket, no allocation failures. It checks `NoUseAfterFree`: a freed task is in no slot, bucket or queue, no thread holds it, and no Put is pending on it. `RefsExact` (spec 8.1): each task's counter equals the references held on it, counting the windows inside TaskTable::Insert and Remove, and the task is live exactly while the count is positive. `StartFailsCleanly`: a Start that fails on a full table leaves the task with refcount 1, no stack and no registration. 1.2M distinct states, under a minute. |
| lifecycle_live | pass | The same two CPUs with 3 slots, checking `AllTasksReclaimed`: every test task is eventually freed. While one test task is registered, a concurrent Start finds the table full. So the liveness also covers the failure path up to the return of TestMultiTasking. After that return the caller panics (main.cpp 95-98, 229-232), which halts every CPU. The model does not take that Panic: its creator just stops. So on a failure path, "eventually freed" says that the cleanup the code does before the Panic is complete. It does not say that the kernel keeps running. `ImplementsTaskLifeSpec` is checked here too. No creator Puts a task before its Wait has seen it Exited, the concurrent exit paths never free a task early, and the abstract liveness holds. The liveness run is kept apart from the safety run because checking it on the 4-slot state space takes most of the time budget. |
| lifecycle_exit | pass | The SMP instance, where the user may type `exit` once the BP's test has returned, while the AP's test is anywhere. `RefsExact` and `NoUseAfterFree` still hold after the destructors: the halted threads keep their references, and no destructor Put frees a task that a queue or a halted thread still reaches. In fact the destructors never free a test task, because a task's queue reference outlives its table references. |
| lifecycle_up | pass | 1 CPU, 2 slots (one is the boot task's), 2 buckets, `new Task` and `new Stack` may fail, and the shell's Ps runs once the test has passed, while the test tasks may still be exiting. It covers every failure path and checks the safety properties of lifecycle_smp, plus `AllTasksReclaimed` and `ImplementsTaskLifeSpec`: the tasks follow TaskLifeSpec on every failure path, with the Panic caveat of lifecycle_live. |
| lifecycle_pspid | violation | 2 CPUs and 3 slots, with the shell's Ps enabled once the BP's test has returned true. `PsPidsUnique` fails, even though Ps holds the single bucket's lock. On the BP, task[0] exits: its State becomes Exited and TaskTable::Remove frees its pid slot, but the task is preempted before the bucket unlink. Task[1] starts and takes the same pid. Wait sees both tasks Exited, because Exit sets State before Remove runs, so TestMultiTasking returns true. The shell's Ps then prints both tasks with pid 2. |
| placement | pass | `SelectIsLeastLoaded`: for the current running mask and counters, and for every affinity mask and current queue, the scan returns the least-loaded candidate with ties to the lowest index, or null when there is no candidate. |
| placement_s3 | violation | Scenario S3 does not hold. Starting a task does not change any counter, so back-to-back starts on idle CPUs all choose CPU 0. |
| placement_null | violation | Start inserts into the nullptr queue when the affinity mask holds no running CPU. |
| placement_stale | violation | `PlacedOnSomeLeastLoaded` fails. The scan starts with counters (0,0,1) and takes CPU 0. CPU 0 then switches twice between the comparisons of bits 1 and 2, so bit 2 wins (2 > 1). CPU 2 is chosen although CPU 1 had the lowest counter at every moment of the scan. |
| objecttable | pass | 3 clients, 2 slots, and the destructor may run at any point. It checks `RefsExact` (spec 8.1): every object's counter equals the references held on it, and the object is freed exactly when that count reaches 0, even with a Lookup racing a Remove and halted clients at destruction. `ImplementsObjectTableSpec`: the table implements ObjectTableSpec, including its liveness. |
| boot | pass | 4 CPUs and all failures allowed. It checks `ApTestAfterRelease`: an AP runs its tests only when every CPU is running and preemption is on. `IpiTestAcked`: every AP that the IPI loop signalled acknowledges it, unless a panic or shutdown comes first. `ShutdownCompletes`: after `exit`, the BP halts with every other running CPU Exited. |

Each property of a passing run has a mutant in PROJECT.json: the definition
with a plausible bug that TLC then catches. Examples are the object table
scanning one slot past its end, the queue taking no reference, ObjectTable::Insert
not undoing its Get, PutAll skipping the last task, the tie-break moving to the
last CPU, ~ObjectTable clearing slots without Putting, Wait returning without reading State, Lookup without its Get, Remove not clearing the slot, an AP not waiting for the release, and ApStartup without
InterruptEnable.

## Bounds

* **TestMultiTasking's 2 tasks per CPU** are exactly the code's array size.
* **TaskLifecycle, SMP run: 2 CPUs.** This is the least that makes creators and tasks of different CPUs race for the table.
* **TaskLifecycle, SMP run: 4 slots.** The 2 boot tasks plus 2 test tasks, so a third concurrent start finds the table full.
* **TaskLifecycle, UP run: 2 slots.** The second task finds the table full unless the first has already exited, so both the full-table path and slot reuse happen.
* **TaskLifecycle, liveness run: 3 slots.** This is the smallest table where one test task registers while another Start fails.
* **TaskLifecycle, exit run: the SMP bounds.** Exit may come at any point after the BP's test, so the AP's creator and tasks are halted at every one of their steps.
* **TaskLifecycle, UP run: 2 buckets.** Ps then takes more than one step, and the boot task and the test tasks may hash to different buckets.
* **TaskLifecycle, pspid run: 1 bucket.** Ps is then one step under one lock, so the duplicate pid cannot come from Ps's per-bucket locking. It comes from the order of TaskTable::Remove alone.
* **Placement: 3 CPUs and 2 tasks.** They have ties, distinct counters and a non-running CPU.
* **Placement: counters bounded by `MaxSwitches` = 2.** This is enough for a CPU to overtake another in the middle of a scan.
* **ObjectTable: 3 clients and 2 slots.** One insert finds the table full, and the others reuse a removed slot. Every Lookup id, the out-of-range one included, is tried at every point.
* **Boot: 4 CPUs.** One BP and three APs. An AP can be mid-start while another is already running and receiving IPIs, and the IPI and exit loops pass over more than one other CPU.

The SMP lifecycle run uses `VIEW QueueBlindView`. The view drops which queue
a task sits on, because after insertion no step reads it. The passing placement run uses task
symmetry. Tasks are interchangeable there, because no property names one. ObjectTable uses no symmetry because it checks liveness.

## Fairness

* **Each creator and each task step is weakly fair.** The timer preempts, the queues are round-robin, and Wait polls. So a thread that can move eventually does.
* **In Boot, every CPU's own step is weakly fair, and so is taking a latched interrupt on a CPU whose IF is set.** This is the hardware's guarantee.
* **The user is never obliged to type `exit`.** That is why ShutdownCompletes is stated as a leads-to from the request.
* **StartAll's timeout is not fair.** It is only possible.
* **In ObjectTable, each client's step is weakly fair.** Its only waits are for the lock, which is modelled as the atomicity of a step.

## Not modelled

* **Atomics, spin locks, the allocators, and the B-tree and ring-buffer self-tests.** These are library code outside `src/kernel`. Their effect is the atomicity of each step.
* **Static destructors other than the TaskTable's.** CpuTable and its TaskQueues are outside `src/`, so the references the queues hold survive Exit in the model.
* **The Panic of BpStartup and ApStartup after a failed TestMultiTasking.** In the lifecycle model a failing creator returns and stops, and the other threads run on. In the code, Panic halts every CPU. This matters only for the liveness runs (see lifecycle_live). Boot models that Panic.
* **A property about ALLOC_CPU_STACK.** Boot models its increment and its overflow panic, but no run checks a property about it. StartAll starts the APs one at a time, so no two CPUs run ALLOC_CPU_STACK at once. The CpuTable has at most MaxCpus entries, so the overflow cannot be reached.
* **TaskTable::Lookup.** Nothing under `src/` calls it. ObjectTable::Lookup, which it wraps, is modelled.
* **Context switching, Sleep and register frames.** They are below the abstraction: a step of a task is a step of the CPU running it.

## Plan for later work

1. **Compose Boot with TaskLifecycle in one module.** The AP test start would be gated by the release. TaskLifecycle's ExitFinalize already covers exit coming while tests run.
2. **Give TaskTable (pid allocation plus buckets) an abstract specification and a refinement.** Ps's pid listing is not linearizable (lifecycle_pspid), so the abstract Ps would need to allow stale rows.
