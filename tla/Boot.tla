------------------------------- MODULE Boot --------------------------------
(***************************************************************************)
(* SMP bring-up, the IPI test and the orderly exit of nos                  *)
(* (src/kernel/main.cpp: Main, BpStartup, ApMain, ApStartup, Exit,         *)
(* ALLOC_CPU_STACK), with the CpuTable services they call (StartAll,       *)
(* SendIPI, ExitAllExceptSelf) and the IPI stubs taken from the spec,      *)
(* whose code is not in this repository.                                   *)
(*                                                                         *)
(* Every CPU is a thread with a program counter.  The BP boots, starts the *)
(* APs one by one, turns preemption on and releases the APs (which spin on *)
(* PreemptOnWaiting), sends one test IPI to every running AP, runs its own *)
(* TestMultiTasking and the shell, and on "exit" stops the APs and halts.  *)
(* Each AP takes a boot stack, runs ApStartup as its first task, enables   *)
(* interrupts, publishes its running bit, waits to be released, runs       *)
(* TestMultiTasking and idles.  TestMultiTasking itself is a single step   *)
(* here (module TaskLifecycle models it); Panic halts every CPU.          *)
(***************************************************************************)
EXTENDS Naturals

CONSTANTS
    NCpus,        \* CPUs in the CpuTable
    BpIndex,      \* the bootstrap processor
    MaxCpus,      \* boot stacks in main.cpp's static Stack array
    SmpOff,       \* Parameters::IsSmpOff()
    CanFail       \* whether allocations, init steps and tests may fail

ASSUME /\ NCpus \in Nat \ {0}
       /\ BpIndex \in 0 .. NCpus - 1
       /\ MaxCpus \in Nat /\ NCpus <= MaxCpus
       /\ SmpOff \in BOOLEAN /\ CanFail \in BOOLEAN

Cpus == 0 .. NCpus - 1
APs  == Cpus \ {BpIndex}
NoStack == MaxCpus        \* an index no CPU is given

VARIABLES
    pc,               \* where each CPU is
    StackIndex,       \* the counter ALLOC_CPU_STACK reads and increments
    stackOf,          \* the boot stack each CPU switched to
    running,          \* CpuTable running mask
    started,          \* APs StartAll has sent INIT+SIPI to
    preemptOn,        \* PreemptOn() has been called
    PreemptOnWaiting, \* the flag the APs spin on
    intEnabled,       \* RFLAGS.IF of each CPU
    ipiPending,       \* an IPIVector interrupt latched in the CPU's LAPIC
    ack,              \* IPIs the CPU's stub has acknowledged
    ipiTodo,          \* BpStartup's IPI loop: CPUs of its mask still to signal
    stopPending,      \* a shutdown IPI latched in the CPU's LAPIC
    exited,           \* CPUs whose shutdown stub set their Exited flag
    exitRequested,    \* Cmd::IsExit(): the user typed "exit"
    panicked          \* Panic() has halted every CPU

vars == <<pc, StackIndex, stackOf, running, started, preemptOn, PreemptOnWaiting,
          intEnabled, ipiPending, ack, ipiTodo, stopPending, exited,
          exitRequested, panicked>>

Labels == {"main", "init", "run", "bpStartup", "startAll", "startWait",
           "preempt", "release", "ipiSnap", "ipi", "bpTest", "cmd", "bpIdle",
           "exitSignal", "exitWait", "halted",
           "off", "apMain", "apRun", "apStartup", "spin", "apTest", "apIdle",
           "returned", "stopped"}

TypeOK ==
    /\ pc \in [Cpus -> Labels]
    /\ StackIndex \in 0 .. NCpus
    /\ stackOf \in [Cpus -> 0 .. MaxCpus]
    /\ running \subseteq Cpus /\ started \subseteq APs
    /\ preemptOn \in BOOLEAN /\ PreemptOnWaiting \in BOOLEAN
    /\ intEnabled \in [Cpus -> BOOLEAN]
    /\ ipiPending \in [Cpus -> BOOLEAN]
    /\ ack \in [Cpus -> 0 .. 1]
    /\ ipiTodo \subseteq Cpus
    /\ stopPending \in [Cpus -> BOOLEAN]
    /\ exited \subseteq APs
    /\ exitRequested \in BOOLEAN /\ panicked \in BOOLEAN

Goto(c, l) == pc' = [pc EXCEPT ![c] = l]

\* Panic(): print, disable preemption and interrupts, halt every CPU.
Panic ==
    /\ panicked' = TRUE
    /\ UNCHANGED <<pc, StackIndex, stackOf, running, started, preemptOn,
                   PreemptOnWaiting, intEnabled, ipiPending, ack, ipiTodo,
                   stopPending, exited, exitRequested>>

-----------------------------------------------------------------------------
(* ALLOC_CPU_STACK: index = AtomicReadAndInc(&StackIndex); an index past   *)
(* the array panics, any other one becomes the CPU's rsp.                  *)
AllocCpuStack(c, next) ==
    /\ StackIndex' = StackIndex + 1
    /\ IF StackIndex >= MaxCpus
       THEN /\ panicked' = TRUE
            /\ UNCHANGED <<pc, stackOf>>
       ELSE /\ stackOf' = [stackOf EXCEPT ![c] = StackIndex]
            /\ Goto(c, next)
            /\ UNCHANGED panicked
    /\ UNCHANGED <<running, started, preemptOn, PreemptOnWaiting, intEnabled,
                   ipiPending, ack, ipiTodo, stopPending, exited, exitRequested>>

-----------------------------------------------------------------------------
(* The bootstrap processor: Main, then BpStartup as its first task.        *)

\* Task::Run for a CPU's boot task (task.cpp): PrepareStart (a stack and a
\* TaskTable slot) may fail and Run returns false; otherwise the task is
\* queued, marked running and Function(Ctx) is entered.  BpStartup and
\* ApStartup never return, so the rest of Run is never reached.
TaskRunResults == IF CanFail THEN BOOLEAN ELSE {TRUE}

BpMain == pc[BpIndex] = "main" /\ AllocCpuStack(BpIndex, "init")

\* Main's chain of set-ups (dmesg, paging, page allocator, ACPI, self
\* tests, keyboard observer, LAPIC, SetBspIndex); any failure panics.
BpInit ==
    /\ pc[BpIndex] = "init"
    /\ \/ /\ Goto(BpIndex, "run")
          /\ UNCHANGED panicked
       \/ CanFail /\ Panic
    /\ UNCHANGED <<StackIndex, stackOf, running, started, preemptOn, PreemptOnWaiting,
                   intEnabled, ipiPending, ack, ipiTodo, stopPending, exited, exitRequested>>

\* cpu.Run(BpStartup): the BP's first task is registered and running, the
\* BP's bit is in the running mask; a failing Run panics.
BpRun ==
    /\ pc[BpIndex] = "run"
    /\ \E ok \in TaskRunResults :
         IF ok THEN /\ Goto(BpIndex, "bpStartup")
                    /\ running' = running \cup {BpIndex}
                    /\ UNCHANGED panicked
               ELSE Panic /\ UNCHANGED running
    /\ UNCHANGED <<StackIndex, stackOf, started, preemptOn, PreemptOnWaiting,
                   intEnabled, ipiPending, ack, ipiTodo, stopPending, exited, exitRequested>>

\* BpStartup up to pit.Setup(): IO-APIC, handlers, the IPI descriptor,
\* BugOn(IsInterruptEnabled()); InterruptEnable().
BpStartup ==
    /\ pc[BpIndex] = "bpStartup"
    /\ intEnabled' = [intEnabled EXCEPT ![BpIndex] = TRUE]
    /\ Goto(BpIndex, IF SmpOff THEN "preempt" ELSE "startAll")
    /\ UNCHANGED <<StackIndex, stackOf, running, started, preemptOn, PreemptOnWaiting,
                   ipiPending, ack, ipiTodo, stopPending, exited, exitRequested, panicked>>

\* Mutation: StartAll walks every CPU of the table, its own included.
StartAllSipi_IncludesSelf ==
    /\ pc[BpIndex] = "startAll"
    /\ IF Cpus \ started # {}
       THEN LET ap == CHOOSE a \in Cpus \ started : \A b \in Cpus \ started : a <= b
            IN  /\ started' = started \cup {ap}
                /\ pc' = [pc EXCEPT ![BpIndex] = "startWait", ![ap] = "apMain"]
       ELSE /\ Goto(BpIndex, "preempt")
            /\ UNCHANGED started
    /\ UNCHANGED <<StackIndex, stackOf, running, preemptOn, PreemptOnWaiting,
                   intEnabled, ipiPending, ack, ipiTodo, stopPending, exited, exitRequested,
                   panicked>>

\* CpuTable::StartAll: INIT+SIPI to the next AP, then wait for its bit.
StartAllSipi ==
    /\ pc[BpIndex] = "startAll"
    /\ IF APs \ started # {}
       THEN LET ap == CHOOSE a \in APs \ started : \A b \in APs \ started : a <= b
            IN  /\ started' = started \cup {ap}
                /\ pc' = [pc EXCEPT ![BpIndex] = "startWait", ![ap] = "apMain"]
       ELSE /\ Goto(BpIndex, "preempt")
            /\ UNCHANGED started
    /\ UNCHANGED <<StackIndex, stackOf, running, preemptOn, PreemptOnWaiting,
                   intEnabled, ipiPending, ack, ipiTodo, stopPending, exited, exitRequested,
                   panicked>>

LastStarted == CHOOSE a \in started : \A b \in started : a >= b

StartAllWait ==
    /\ pc[BpIndex] = "startWait"
    /\ LastStarted \in running
    /\ Goto(BpIndex, "startAll")
    /\ UNCHANGED <<StackIndex, stackOf, running, started, preemptOn, PreemptOnWaiting,
                   intEnabled, ipiPending, ack, ipiTodo, stopPending, exited, exitRequested,
                   panicked>>

\* The bounded wait runs out before the AP's bit shows: StartAll returns
\* false and BpStartup panics "Can't start all cpus".
StartAllTimeout ==
    /\ pc[BpIndex] = "startWait"
    /\ LastStarted \notin running
    /\ Panic

\* PreemptOn(); then PreemptOnWaiting = false releases the APs.
BpPreemptOn ==
    /\ pc[BpIndex] = "preempt"
    /\ preemptOn' = TRUE
    /\ Goto(BpIndex, "release")
    /\ UNCHANGED <<StackIndex, stackOf, running, started, PreemptOnWaiting,
                   intEnabled, ipiPending, ack, ipiTodo, stopPending, exited, exitRequested,
                   panicked>>

BpRelease ==
    /\ pc[BpIndex] = "release"
    /\ PreemptOnWaiting' = FALSE
    /\ Goto(BpIndex, "ipiSnap")
    /\ UNCHANGED <<StackIndex, stackOf, running, started, preemptOn, intEnabled,
                   ipiPending, ack, ipiTodo, stopPending, exited, exitRequested, panicked>>

\* IPI test: cpuMask = GetRunningCpus(), read once.
BpIpiSnapshot ==
    /\ pc[BpIndex] = "ipiSnap"
    /\ ipiTodo' = running
    /\ Goto(BpIndex, "ipi")
    /\ UNCHANGED <<StackIndex, stackOf, running, started, preemptOn, PreemptOnWaiting,
                   intEnabled, ipiPending, ack, stopPending, exited, exitRequested, panicked>>

\* For every bit of the mask in turn: if (i != cpu.GetIndex()) SendIPI(i).
BpSendIpi ==
    /\ pc[BpIndex] = "ipi"
    /\ IF ipiTodo # {}
       THEN LET i == CHOOSE a \in ipiTodo : \A b \in ipiTodo : a <= b
            IN  /\ ipiTodo' = ipiTodo \ {i}
                /\ ipiPending' = IF i # BpIndex
                                 THEN [ipiPending EXCEPT ![i] = TRUE]
                                 ELSE ipiPending
                /\ UNCHANGED pc
       ELSE /\ Goto(BpIndex, "bpTest")
            /\ UNCHANGED <<ipiTodo, ipiPending>>
    /\ UNCHANGED <<StackIndex, stackOf, running, started, preemptOn, PreemptOnWaiting,
                   intEnabled, ack, stopPending, exited, exitRequested, panicked>>

\* TestMultiTasking on the BP: a failure panics "Mulitasking test failed".
BpTest ==
    /\ pc[BpIndex] = "bpTest"
    /\ \/ Goto(BpIndex, "cmd") /\ UNCHANGED panicked
       \/ CanFail /\ Panic
    /\ UNCHANGED <<StackIndex, stackOf, running, started, preemptOn, PreemptOnWaiting,
                   intEnabled, ipiPending, ack, ipiTodo, stopPending, exited, exitRequested>>

\* cmd.Start(); a failure panics "Can't start cmd".
BpCmdStart ==
    /\ pc[BpIndex] = "cmd"
    /\ \/ Goto(BpIndex, "bpIdle") /\ UNCHANGED panicked
       \/ CanFail /\ Panic
    /\ UNCHANGED <<StackIndex, stackOf, running, started, preemptOn, PreemptOnWaiting,
                   intEnabled, ipiPending, ack, ipiTodo, stopPending, exited, exitRequested>>

\* The idle loop: cpu.Idle(); if (cmd.IsExit()) { cmd.Stop(); break; }
BpIdleExit ==
    /\ pc[BpIndex] = "bpIdle"
    /\ exitRequested
    /\ Goto(BpIndex, "exitSignal")
    /\ UNCHANGED <<StackIndex, stackOf, running, started, preemptOn, PreemptOnWaiting,
                   intEnabled, ipiPending, ack, ipiTodo, stopPending, exited, exitRequested,
                   panicked>>

\* The user types "exit" at the shell once it is started.
UserExit ==
    /\ pc[BpIndex] = "bpIdle" /\ ~exitRequested
    /\ exitRequested' = TRUE
    /\ UNCHANGED <<pc, StackIndex, stackOf, running, started, preemptOn, PreemptOnWaiting,
                   intEnabled, ipiPending, ack, ipiTodo, stopPending, exited, panicked>>

\* Mutation: ExitAllExceptSelf's signalling loop stops one CPU short.
ExitSignal_SkipLast ==
    /\ pc[BpIndex] = "exitSignal"
    /\ LET others == running \ {BpIndex}
           last   == CHOOSE a \in others : \A b \in others : a >= b
       IN  stopPending' = [c \in Cpus |-> stopPending[c] \/ (c \in others /\ c # last)]
    /\ Goto(BpIndex, "exitWait")
    /\ UNCHANGED <<StackIndex, stackOf, running, started, preemptOn, PreemptOnWaiting,
                   intEnabled, ipiPending, ack, ipiTodo, exited, exitRequested, panicked>>

\* Exit(): PreemptDisable(); CpuTable::ExitAllExceptSelf() signals every
\* other running CPU with a shutdown IPI ...
ExitSignal ==
    /\ pc[BpIndex] = "exitSignal"
    /\ stopPending' = [c \in Cpus |-> stopPending[c] \/ c \in running \ {BpIndex}]
    /\ Goto(BpIndex, "exitWait")
    /\ UNCHANGED <<StackIndex, stackOf, running, started, preemptOn, PreemptOnWaiting,
                   intEnabled, ipiPending, ack, ipiTodo, exited, exitRequested, panicked>>

\* ... and spins until all of them are Exited; then PreemptOff(),
\* __cxa_finalize(0), InterruptDisable() and the final pause loop.
ExitWait ==
    /\ pc[BpIndex] = "exitWait"
    /\ running \ {BpIndex} \subseteq exited
    /\ preemptOn' = FALSE
    /\ intEnabled' = [intEnabled EXCEPT ![BpIndex] = FALSE]
    /\ Goto(BpIndex, "halted")
    /\ UNCHANGED <<StackIndex, stackOf, running, started, PreemptOnWaiting, ipiPending,
                   ack, ipiTodo, stopPending, exited, exitRequested, panicked>>

-----------------------------------------------------------------------------
(* An application processor: ApMain, then ApStartup as its first task.     *)

\* ApMain: ALLOC_CPU_STACK(); Gdt/Idt Save; a start while smp is off
\* panics; Lapic::Enable().
ApMain(c) ==
    /\ pc[c] = "apMain"
    /\ IF SmpOff THEN Panic ELSE AllocCpuStack(c, "apRun")

\* cpu.Run(ApStartup): on failure ApMain traces and returns, leaving the
\* CPU without its running bit.
ApRun(c) ==
    /\ pc[c] = "apRun"
    /\ \E ok \in TaskRunResults : Goto(c, IF ok THEN "apStartup" ELSE "returned")
    /\ UNCHANGED <<StackIndex, stackOf, running, started, preemptOn, PreemptOnWaiting,
                   intEnabled, ipiPending, ack, ipiTodo, stopPending, exited, exitRequested,
                   panicked>>

\* Mutation: ApStartup publishes its running bit without InterruptEnable().
ApStartup_NoIntEnable(c) ==
    /\ pc[c] = "apStartup"
    /\ running' = running \cup {c}
    /\ Goto(c, "spin")
    /\ UNCHANGED <<StackIndex, stackOf, started, preemptOn, PreemptOnWaiting,
                   intEnabled, ipiPending, ack, ipiTodo, stopPending, exited, exitRequested,
                   panicked>>

\* ApStartup: Idt Save, SetCr3, BugOn(IsInterruptEnabled());
\* InterruptEnable(); cpu.SetRunning().
ApStartup(c) ==
    /\ pc[c] = "apStartup"
    /\ intEnabled' = [intEnabled EXCEPT ![c] = TRUE]
    /\ running' = running \cup {c}
    /\ Goto(c, "spin")
    /\ UNCHANGED <<StackIndex, stackOf, started, preemptOn, PreemptOnWaiting,
                   ipiPending, ack, ipiTodo, stopPending, exited, exitRequested, panicked>>

\* Mutation: the AP does not wait for the BP's release.
ApSpin_NoWait(c) ==
    /\ pc[c] = "spin"
    /\ Goto(c, "apTest")
    /\ UNCHANGED <<StackIndex, stackOf, running, started, preemptOn, PreemptOnWaiting,
                   intEnabled, ipiPending, ack, ipiTodo, stopPending, exited, exitRequested,
                   panicked>>

\* while (PreemptOnWaiting) Pause();
ApSpin(c) ==
    /\ pc[c] = "spin"
    /\ ~PreemptOnWaiting
    /\ Goto(c, "apTest")
    /\ UNCHANGED <<StackIndex, stackOf, running, started, preemptOn, PreemptOnWaiting,
                   intEnabled, ipiPending, ack, ipiTodo, stopPending, exited, exitRequested,
                   panicked>>

\* TestMultiTasking on the AP; a failure panics, success enters the
\* cpu.Idle() loop.
ApTest(c) ==
    /\ pc[c] = "apTest"
    /\ \/ Goto(c, "apIdle") /\ UNCHANGED panicked
       \/ CanFail /\ Panic
    /\ UNCHANGED <<StackIndex, stackOf, running, started, preemptOn, PreemptOnWaiting,
                   intEnabled, ipiPending, ack, ipiTodo, stopPending, exited, exitRequested>>

-----------------------------------------------------------------------------
(* Interrupt delivery: a latched vector is taken once the CPU has IF set.  *)

\* IPInterruptStub: EOI and bump the CPU's ack counter.
TakeIpi(c) ==
    /\ intEnabled[c] /\ ipiPending[c]
    /\ ipiPending' = [ipiPending EXCEPT ![c] = FALSE]
    /\ ack' = [ack EXCEPT ![c] = @ + 1]
    /\ UNCHANGED <<pc, StackIndex, stackOf, running, started, preemptOn, PreemptOnWaiting,
                   intEnabled, ipiTodo, stopPending, exited, exitRequested, panicked>>

\* The shutdown stub: set the Exited flag and hlt with interrupts off.
TakeStop(c) ==
    /\ intEnabled[c] /\ stopPending[c]
    /\ stopPending' = [stopPending EXCEPT ![c] = FALSE]
    /\ exited' = exited \cup {c}
    /\ intEnabled' = [intEnabled EXCEPT ![c] = FALSE]
    /\ Goto(c, "stopped")
    /\ UNCHANGED <<StackIndex, stackOf, running, started, preemptOn, PreemptOnWaiting,
                   ipiPending, ack, ipiTodo, exitRequested, panicked>>

-----------------------------------------------------------------------------
Init ==
    /\ pc = [c \in Cpus |-> IF c = BpIndex THEN "main" ELSE "off"]
    /\ StackIndex = 0
    /\ stackOf = [c \in Cpus |-> NoStack]
    /\ running = {} /\ started = {}
    /\ preemptOn = FALSE /\ PreemptOnWaiting = TRUE
    /\ intEnabled = [c \in Cpus |-> FALSE]
    /\ ipiPending = [c \in Cpus |-> FALSE]
    /\ ack = [c \in Cpus |-> 0]
    /\ ipiTodo = {}
    /\ stopPending = [c \in Cpus |-> FALSE]
    /\ exited = {}
    /\ exitRequested = FALSE /\ panicked = FALSE

BpStep ==
    \/ BpMain \/ BpInit \/ BpRun \/ BpStartup
    \/ StartAllSipi \/ StartAllWait \/ StartAllTimeout
    \/ BpPreemptOn \/ BpRelease \/ BpIpiSnapshot \/ BpSendIpi
    \/ BpTest \/ BpCmdStart \/ BpIdleExit \/ ExitSignal \/ ExitWait

ApStep(c) == ApMain(c) \/ ApRun(c) \/ ApStartup(c) \/ ApSpin(c) \/ ApTest(c)

\* Every CPU has stopped: Panic, or the BP's final loop.
Halted ==
    /\ panicked \/ pc[BpIndex] = "halted"
    /\ UNCHANGED vars

Next ==
    \/ ~panicked /\ (\/ BpStep \/ UserExit
                     \/ \E c \in APs : ApStep(c) \/ TakeIpi(c) \/ TakeStop(c))
    \/ Halted

\* Each CPU executes its own code; a latched interrupt on a CPU with IF set
\* is eventually taken.  The user is not obliged to type "exit".
Fairness ==
    /\ WF_vars(~panicked /\ BpStep)
    /\ \A c \in APs : /\ WF_vars(~panicked /\ ApStep(c))
                      /\ WF_vars(~panicked /\ TakeIpi(c))
                      /\ WF_vars(~panicked /\ TakeStop(c))

Spec == Init /\ [][Next]_vars /\ Fairness

-----------------------------------------------------------------------------
(* Properties                                                              *)

\* ApStartup spins on PreemptOnWaiting so that an AP starts its
\* TestMultiTasking only once the BP's StartAll has brought every CPU up
\* and preemption is on: its tasks can then be placed on any CPU.
ApTestAfterRelease ==
    \A c \in APs :
        pc[c] \in {"apTest", "apIdle"} => running = Cpus /\ preemptOn

\* Spec 8.9 and S2: every AP the BP's IPI loop signals acknowledges the
\* IPI (its ack counter reaches exactly 1) unless the machine panics or
\* is shut down first.
IpiTestAcked ==
    \A c \in APs :
        ipiPending[c] ~> (ack[c] = 1 \/ panicked \/ c \in exited)

\* S6: once the user asks to exit, ExitAllExceptSelf returns after every
\* other running CPU has reached its Exited sentinel and the BP halts.
ShutdownCompletes ==
    exitRequested ~>
        (panicked \/ (pc[BpIndex] = "halted" /\ running \ {BpIndex} \subseteq exited))
====
