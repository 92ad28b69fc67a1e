----------------------------- MODULE Placement -----------------------------
(***************************************************************************)
(* Task placement in nos: Task::SelectNextTaskQueue (src/kernel/task.cpp)  *)
(* and its use by Task::Start and Task::SetCpuAffinity.                    *)
(*                                                                         *)
(* CPUs are numbered 0 .. NCpus-1, as bits of GetRunningCpus() and of the  *)
(* task's CpuAffinity mask.  The state is the set of CPUs that have set    *)
(* their running bit, the context-switch counter of every CPU's queue, and *)
(* for every task its affinity mask and the queue Start placed it on.      *)
(***************************************************************************)
EXTENDS Naturals, FiniteSets

CONSTANTS
    NCpus,        \* CPUs known to the CpuTable
    BpIndex,      \* the bootstrap processor
    InitRunning,  \* CPUs already up when the tasks are created
    Tasks,        \* tasks that get started
    MaxSwitches,  \* bound on each queue's switch-context counter
    NullQueue,    \* nullptr returned by SelectNextTaskQueue
    Unplaced      \* a task not started yet

ASSUME /\ NCpus \in Nat \ {0}
       /\ BpIndex \in 0 .. NCpus - 1
       /\ BpIndex \in InitRunning /\ InitRunning \subseteq 0 .. NCpus - 1
       /\ MaxSwitches \in Nat

Cpus == 0 .. NCpus - 1

VARIABLES
    running,      \* CpuTable running mask: the CPUs that called SetRunning
    switches,     \* TaskQueue switch-context counter of each CPU
    affinity,     \* Task::CpuAffinity
    queueOf,      \* the queue Task::Start inserted the task into
    scanK,        \* SelectNextTaskQueue in progress: the next bit i (NCpus: loop over)
    scanMask,     \* its cpuMask, read once when it starts
    scanBest,     \* its taskQueue so far
    leastSeen     \* history: the candidates that had the lowest counter at
                  \* some moment of the task's scan

vars == <<running, switches, affinity, queueOf, scanK, scanMask, scanBest, leastSeen>>

NotScanning == NCpus + 1

TypeOK ==
    /\ running \in SUBSET Cpus
    /\ switches \in [Cpus -> 0 .. MaxSwitches]
    /\ affinity \in [Tasks -> SUBSET Cpus]
    /\ queueOf \in [Tasks -> Cpus \cup {NullQueue, Unplaced}]
    /\ scanK \in [Tasks -> 0 .. NotScanning]
    /\ scanMask \in [Tasks -> SUBSET Cpus]
    /\ scanBest \in [Tasks -> Cpus \cup {NullQueue}]
    /\ leastSeen \in [Tasks -> SUBSET Cpus]

-----------------------------------------------------------------------------
(* Task::SelectNextTaskQueue: scan the bits of running & affinity upward,  *)
(* skip the task's own queue, keep the first candidate and replace it by   *)
(* a later one only when that one's counter is strictly smaller.          *)
(* "cur" is the task's TaskQueue back-pointer (NullQueue for a new task). *)
\* One iteration of the loop for bit k.
\* Mutation: a candidate replaces the best one on an equal counter too
\* (>= for >), so ties go to the highest index.
ScanBit_TieToLast(k, mask, cur, cnt, best) ==
    IF k \in mask /\ k # cur /\ (best = NullQueue \/ cnt[best] >= cnt[k])
    THEN k ELSE best

ScanBit(k, mask, cur, cnt, best) ==
    IF k \in mask /\ k # cur /\ (best = NullQueue \/ cnt[best] > cnt[k])
    THEN k ELSE best

RECURSIVE Scan(_, _, _, _, _)
Scan(k, mask, cur, cnt, best) ==
    IF k = NCpus THEN best
    ELSE Scan(k + 1, mask, cur, cnt, ScanBit(k, mask, cur, cnt, best))

SelectNextTaskQueue(run, aff, cur, cnt) ==
    LET cpuMask == run \cap aff
    IN  IF cpuMask # {} THEN Scan(0, cpuMask, cur, cnt, NullQueue) ELSE NullQueue

\* What spec 4.4 says placement does: among the running CPUs of the
\* affinity mask other than the task's current queue, the least switch
\* counter, ties to the lowest index; none -> nullptr.
LeastLoaded(run, aff, cur, cnt) ==
    LET cand == (run \cap aff) \ {cur}
    IN  IF cand = {} THEN NullQueue
        ELSE CHOOSE q \in cand :
               \A r \in cand : cnt[q] < cnt[r] \/ (cnt[q] = cnt[r] /\ q <= r)

-----------------------------------------------------------------------------
\* Mutation: the running bit is set one position too high.
SetRunning_NextBit(c) ==
    /\ c \notin running
    /\ running' = running \cup {c + 1}
    /\ UNCHANGED <<switches, affinity, queueOf, scanK, scanMask, scanBest>>

(* An AP publishes that it is up (Cpu::SetRunning in ApStartup).           *)
SetRunning(c) ==
    /\ c \notin running
    /\ running' = running \cup {c}
    /\ UNCHANGED <<switches, affinity, queueOf, scanK, scanMask, scanBest>>

(* A context switch on a running CPU bumps its queue's counter.            *)
ContextSwitch(c) ==
    /\ c \in running
    /\ switches[c] < MaxSwitches
    /\ switches' = [switches EXCEPT ![c] = @ + 1]
    /\ UNCHANGED <<running, affinity, queueOf, scanK, scanMask, scanBest>>

(* Task::SetCpuAffinity: under the task lock, before the task is started. *)
SetCpuAffinity(t, mask) ==
    /\ queueOf[t] = Unplaced /\ scanK[t] = NotScanning
    /\ affinity' = [affinity EXCEPT ![t] = mask]
    /\ UNCHANGED <<running, switches, queueOf, scanK, scanMask, scanBest>>

(* Task::Start calls SelectNextTaskQueue, which reads                     *)
(* cpuMask = GetRunningCpus() & CpuAffinity once; an empty mask returns   *)
(* nullptr at once.  A new task has no queue yet.                          *)
StartSelect(t) ==
    /\ queueOf[t] = Unplaced /\ scanK[t] = NotScanning
    /\ scanMask' = [scanMask EXCEPT ![t] = running \cap affinity[t]]
    /\ scanBest' = [scanBest EXCEPT ![t] = NullQueue]
    /\ scanK' = [scanK EXCEPT ![t] = IF running \cap affinity[t] # {} THEN 0 ELSE NCpus]
    /\ UNCHANGED <<running, switches, affinity, queueOf>>

(* One iteration of the bit loop; both switch counters of the comparison  *)
(* are read, without any queue lock, while other CPUs keep switching.     *)
ScanStep(t) ==
    /\ scanK[t] < NCpus
    /\ scanBest' = [scanBest EXCEPT ![t] =
                       ScanBit(scanK[t], scanMask[t], NullQueue, switches, scanBest[t])]
    /\ scanK' = [scanK EXCEPT ![t] = @ + 1]
    /\ UNCHANGED <<running, switches, affinity, queueOf, scanMask>>

(* taskQueue->Insert(this) on the result, unchecked: a NullQueue result   *)
(* is inserted into as it is.                                              *)
StartInsert(t) ==
    /\ scanK[t] = NCpus
    /\ queueOf' = [queueOf EXCEPT ![t] = scanBest[t]]
    /\ scanK' = [scanK EXCEPT ![t] = NotScanning]
    /\ UNCHANGED <<running, switches, affinity, scanMask, scanBest>>

\* Every task has been started; the counters may be at their bound.
Done ==
    /\ \A t \in Tasks : queueOf[t] # Unplaced
    /\ UNCHANGED vars

Init ==
    /\ running = InitRunning
    /\ switches = [c \in Cpus |-> 0]
    /\ affinity = [t \in Tasks |-> Cpus]          \* CpuAffinity(~0)
    /\ queueOf = [t \in Tasks |-> Unplaced]
    /\ scanK = [t \in Tasks |-> NotScanning]
    /\ scanMask = [t \in Tasks |-> {}]
    /\ scanBest = [t \in Tasks |-> NullQueue]
    /\ leastSeen = [t \in Tasks |-> {}]

\* The candidates of a mask with the lowest counter.
LeastSet(mask, cnt) == {q \in mask : \A r \in mask : cnt[q] <= cnt[r]}

\* The history variable follows every step: a scan that starts records the
\* least-loaded candidates of that moment, one in progress adds those of
\* each new state.
RecordLeast ==
    leastSeen' = [t \in Tasks |->
        IF scanK[t] = NotScanning /\ scanK'[t] # NotScanning
        THEN LeastSet(scanMask'[t], switches')
        ELSE IF scanK[t] # NotScanning
             THEN leastSeen[t] \cup LeastSet(scanMask[t], switches')
             ELSE leastSeen[t]]

PlacementNext ==
    \/ \E c \in Cpus : SetRunning(c) \/ ContextSwitch(c)
    \/ \E t \in Tasks, mask \in SUBSET Cpus : SetCpuAffinity(t, mask)
    \/ \E t \in Tasks : StartSelect(t) \/ ScanStep(t) \/ StartInsert(t)
    \/ Done

Next == PlacementNext /\ RecordLeast

Spec == Init /\ [][Next]_vars

-----------------------------------------------------------------------------
(* Properties                                                              *)

\* The scan of SelectNextTaskQueue picks what spec 4.4 promises, for the
\* current running mask and counters and for every affinity mask and every
\* queue the task may currently be on.
SelectIsLeastLoaded ==
    \A aff \in SUBSET Cpus, cur \in Cpus \cup {NullQueue} :
        SelectNextTaskQueue(running, aff, cur, switches)
            = LeastLoaded(running, aff, cur, switches)

\* Scenario S3 of the spec: tasks started with affinity to all CPUs on a
\* machine with no prior load land on distinct CPUs.
DistinctPlacement ==
    \A u1, u2 \in Tasks :
        (u1 # u2 /\ queueOf[u1] \in Cpus /\ queueOf[u2] \in Cpus)
            => queueOf[u1] # queueOf[u2]

\* Task::Start never inserts into a nullptr queue (spec 4.4: an empty
\* affinity intersection is a failure of the caller).
StartFindsQueue ==
    \A t \in Tasks : queueOf[t] # NullQueue

\* Spec 4.4: Start inserts the task into the candidate queue with the
\* lowest switch counter.  The scan re-reads the counters at every
\* comparison, without the queues' locks, while other CPUs switch; the
\* weakest reading of the promise is that the chosen queue had the lowest
\* counter at some moment during the scan.
PlacedOnSomeLeastLoaded ==
    [][\A t \in Tasks :
         (scanK[t] = NCpus /\ scanK'[t] = NotScanning /\ queueOf'[t] \in Cpus)
             => queueOf'[t] \in leastSeen[t]]_vars
=============================================================================
