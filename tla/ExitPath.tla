------------------------------- MODULE ExitPath -------------------------------
(***************************************************************************)
(* A process that returns from its entry point runs kill_process and       *)
(* switch_process_from_queue on its own stack with interrupts enabled.     *)
(* kernel_main, too, creates its processes with interrupts enabled.  This  *)
(* module takes both paths apart into steps, with the clock and keyboard   *)
(* interrupts as atomic steps in between, and keeps what context_switch    *)
(* moves: which process each saved stack pointer belongs to and which      *)
(* process the CPU is running.  A step that stands for several accesses of *)
(* shared state says why one step is enough.  `met` remembers on which of  *)
(* the two paths an interrupt has arrived: most properties are those of a  *)
(* machine where none has, and say so.  As in Scheduler, a comment that    *)
(* begins with "Mutant" marks an operator that is not the code.            *)
(***************************************************************************)
EXTENDS Scheduler, FiniteSets

CONSTANTS
    Stacks   \* bound: the blocks the heap can give for stacks

ASSUME StackAssumption == IsFiniteSet(Stacks) /\ Cardinality(Stacks) > MaxProcess

VARIABLES
    stack,       \* proc_table[i].context.stack_bottom
    saved,       \* proc_table[i].context.ESP: the process it resumes
    allocated,   \* the stacks the heap holds as in use
    own,         \* the stack each process has been given
    cpu,         \* the process the CPU runs; NoPid is kernel_main
    at,          \* where each process is on its exit path, "body" before it
    index,       \* i, in the scan of the exiting process
    best,        \* the local variable proc of each process (a slot)
    before,      \* ghost: the table as the exiting process found it
    boot,        \* the locals of kernel_main and of its call of init_process
    met          \* ghost: the paths on which an interrupt has arrived

NoStack == "none"
Threads == PIDs \cup {NoPid}   \* kernel_main is the one with no PID

contextVars == <<stack, saved, allocated, own, cpu, at>>
locals == <<index, best, before>>
allVars == <<vars, contextVars, locals, boot, met>>

ExitPoints == {"free", "scan", "switch", "publish", "load"}
Exiting == at[cpu] \in ExitPoints

\* kernel_main between two calls of init_process, n of them made.
InKernelMain(n) ==
    [at |-> "kernel_main", made |-> n, pid |-> NoPid, slot |-> 0, stack |-> NoStack]

GoTo(point) == at' = [at EXCEPT ![cpu] = point]

-----------------------------------------------------------------------------
(* Interrupts and boot.                                                    *)

\* Mutant: the heap gives out a block in use.
AnyStack == Stacks

\* What allocate can return.
FreeStacks == Stacks \ allocated

\* The keyboard handler and the clock handler find the CPU somewhere.
Interrupt ==
    /\ met' = met \cup (IF Exiting THEN {"exit"} ELSE {})
                   \cup (IF clock_on THEN {} ELSE {"boot"})
    /\ UNCHANGED boot

\* The shell's run command: the ELF loader allocates the stack and calls
\* init_process, whose new context resumes the new process.  The shell takes
\* commands before the clock runs.  PIDs do not wrap here: MaxPid bounds how
\* many processes are ever created.
Keyboard ==
    /\ ~halted /\ next_pid < MaxPid
    /\ InitProcess \/ InitProcessFull
    /\ \E s \in FreeStacks :
         /\ allocated' = allocated \cup {s}
         /\ IF halted' THEN UNCHANGED <<stack, saved, own, at>>
            ELSE \E i \in Slots :
                   /\ IsFreeSlot(i)
                   /\ stack' = [stack EXCEPT ![i] = s]
                   /\ saved' = [saved EXCEPT ![i] = next_pid']
                   /\ own' = [own EXCEPT ![next_pid'] = s]
                   /\ at' = [at EXCEPT ![next_pid'] = "body"]
    /\ Interrupt
    /\ UNCHANGED <<cpu, locals>>

\* kernel_main allocates a stack and calls init_process, which takes a PID ...
\* Only a command can come between the two, before the clock runs, and it takes
\* a stack and a PID of its own, as it does when it comes before this step.
BootNumber ==
    /\ ~halted /\ boot.at = "kernel_main" /\ boot.made < BootProcesses
    /\ next_pid < MaxPid
    /\ \E p \in PIDs, s \in FreeStacks :
         /\ IsNextPid(p) /\ next_pid' = p
         /\ allocated' = allocated \cup {s}
         /\ boot' = [boot EXCEPT !.at = "reserve", !.pid = p, !.stack = s]
    /\ UNCHANGED <<pid, status, wait_time, active_pid, clock_on, halted,
                   stack, saved, own, cpu, at, locals, met>>

\* ... and a slot, which is not marked as taken; there may be none.  A command
\* in the middle of the loop fills the first free slot: the loop finds what it
\* would find if the command had come before or after it.  Then kernel_main ...
BootReserve ==
    /\ ~halted /\ boot.at = "reserve"
    /\ IF \A i \in Slots : Live(i) THEN halted' = TRUE /\ UNCHANGED boot
       ELSE \E i \in Slots :
              /\ IsFreeSlot(i)
              /\ boot' = [boot EXCEPT !.at = "fill", !.slot = i]
              /\ UNCHANGED halted
    /\ UNCHANGED <<pid, status, wait_time, active_pid, next_pid, clock_on,
                   contextVars, locals, met>>

\* ... stores the context ...
BootFill ==
    /\ ~halted /\ boot.at = "fill"
    /\ stack' = [stack EXCEPT ![boot.slot] = boot.stack]
    /\ saved' = [saved EXCEPT ![boot.slot] = boot.pid]
    /\ own' = [own EXCEPT ![boot.pid] = boot.stack]
    /\ boot' = [boot EXCEPT !.at = "publish"]
    /\ UNCHANGED <<vars, allocated, cpu, at, locals, met>>

\* ... then the PID and, with the status, the process exists.  The two stores of
\* the context, and these three, are one step each: what a command in between
\* may leave of its own in the slot is not followed, as no property below says
\* anything but types once a command has come here.
BootPublish ==
    /\ ~halted /\ boot.at = "publish"
    /\ pid' = [pid EXCEPT ![boot.slot] = boot.pid]
    /\ status' = [status EXCEPT ![boot.slot] = "SPAWNED"]
    /\ wait_time' = [wait_time EXCEPT ![boot.slot] = 0]
    /\ boot' = InKernelMain(boot.made + 1)
    /\ UNCHANGED <<active_pid, next_pid, clock_on, halted, contextVars, locals, met>>

BootClock ==
    /\ ~halted /\ ~clock_on /\ boot.made = BootProcesses
    /\ clock_on' = TRUE
    /\ UNCHANGED <<pid, status, wait_time, active_pid, next_pid, halted,
                   contextVars, locals, boot, met>>

\* Mutant: the two arguments of context_switch are swapped where it saves.
SaveIntoNew ==
    saved' = [i \in Slots |-> IF IsProcess(active_pid', i) THEN cpu ELSE saved[i]]

\* The stack pointer of the interrupted process goes to the slot of old_proc.
SaveContext ==
    saved' = [i \in Slots |-> IF IsProcess(active_pid, i) THEN cpu ELSE saved[i]]

\* context_switch(old, new) when old_proc is proc_table[o], or NULL if nobody
\* has the PID active_pid: then the stack pointer of the interrupted process
\* is stored at address 0 and lost.
Clock ==
    /\ Tick
    /\ IF active_pid' = active_pid THEN UNCHANGED <<cpu, saved>>
       ELSE /\ SaveContext
            /\ \E i \in Slots : IsProcess(active_pid', i) /\ cpu' = saved[i]
    /\ Interrupt /\ before' = <<>>
    /\ UNCHANGED <<stack, allocated, own, at, index, best>>

-----------------------------------------------------------------------------
(* The exit path.  cpu is the process that has returned.  Process 0, which *)
(* never does, is the backstop, unless a command has taken its PID during  *)
(* the boot; what a scan does with no process 0 at all is not followed.    *)

\* kill_process up to its store of STOPPED.  The lookup of its own slot is part
\* of the step, as nothing moves a live process to another.
Kill ==
    /\ clock_on /\ ~halted /\ cpu \notin {NoPid, 0} /\ at[cpu] = "body"
    /\ \E k \in Slots :
         /\ IsProcess(cpu, k)
         /\ status' = [status EXCEPT ![k] = "STOPPED"]
         /\ best' = [best EXCEPT ![cpu] = k]
    /\ before' = [status |-> status, wait_time |-> wait_time, active_pid |-> active_pid]
    /\ GoTo("free")
    /\ UNCHANGED <<pid, wait_time, active_pid, next_pid, clock_on, halted,
                   stack, saved, allocated, own, cpu, index, boot, met>>

\* Mutant: the slot is that of get_process(0), looked up too early.
BackstopStack == stack[0]

\* proc->context.stack_bottom.
StackToFree == stack[best[cpu]]

\* It then reads the stack from its slot, frees it, and returns into
\* switch_process_from_queue, which looks the backstop up.  What comes between
\* these three only adds a process or runs others: with the stack read it is
\* this stack that is freed, and the backstop stays where it is.
FreeStack ==
    /\ ~halted /\ at[cpu] = "free"
    /\ allocated' = allocated \ {StackToFree}
    /\ \E b \in Slots : IsProcess(0, b) /\ best' = [best EXCEPT ![cpu] = b]
    /\ GoTo("scan") /\ index' = 0
    /\ UNCHANGED <<vars, stack, saved, own, cpu, before, boot, met>>

\* Mutant: the comparison comes before the increment.
BeatsEarly(i, b) == wait_time[i] > wait_time[b]

\* ++proc_table[i].wait_time > proc->wait_time, for the proc of slot b.
Beats(i, b) == wait_time'[i] > wait_time[b]

\* One iteration of the scan.  A tick in the middle of it may have other waits
\* compared, which are only spoken of where no interrupt has come.
Scan ==
    /\ ~halted /\ at[cpu] = "scan" /\ index < MaxProcess
    /\ IF Runnable(status, index)
       THEN /\ wait_time' = [wait_time EXCEPT ![index] = @ + 1]
            /\ best' = IF Beats(index, best[cpu])
                       THEN [best EXCEPT ![cpu] = index] ELSE best
       ELSE UNCHANGED <<wait_time, best>>
    /\ index' = index + 1
    /\ UNCHANGED <<pid, status, active_pid, next_pid, clock_on, halted,
                   contextVars, before, boot, met>>

\* proc->wait_time = 0, and the test of proc->PID.  Not switching would
\* return into the parameter of kill_process as if it were an address.
Pick ==
    /\ ~halted /\ at[cpu] = "scan" /\ index = MaxProcess
    /\ wait_time' = [wait_time EXCEPT ![best[cpu]] = 0]
    /\ halted' = (pid[best[cpu]] = active_pid)
    /\ GoTo("switch")
    /\ UNCHANGED <<pid, status, active_pid, next_pid, clock_on,
                   stack, saved, allocated, own, cpu, best, index, before, boot, met>>

\* switch_process: the statuses.  On a path that no interrupt has met old_proc is
\* NULL, and the first of the two stores is not made; where it is, a tick between
\* the two finds a process WAITING that it would itself have stored as WAITING.
Switch ==
    /\ ~halted /\ at[cpu] = "switch"
    /\ status' = [i \in Slots |->
                    IF i = best[cpu] THEN "ACTIVE"
                    ELSE IF IsProcess(active_pid, i) /\ status[i] = "ACTIVE"
                    THEN "WAITING" ELSE status[i]]
    /\ GoTo("publish")
    /\ UNCHANGED <<pid, wait_time, active_pid, next_pid, clock_on, halted,
                   stack, saved, allocated, own, cpu, locals, boot, met>>

\* Then active_pid ...
Publish ==
    /\ ~halted /\ at[cpu] = "publish"
    /\ active_pid' = pid[best[cpu]]
    /\ GoTo("load")
    /\ UNCHANGED <<pid, status, wait_time, next_pid, clock_on, halted,
                   stack, saved, allocated, own, cpu, locals, boot, met>>

\* ... then context_switch, whose old_proc is NULL.  A context that was saved
\* here resumes here, with its locals, and loads itself again.
Load ==
    /\ ~halted /\ at[cpu] = "load"
    /\ cpu' = saved[best[cpu]]
    /\ best' = IF cpu' = cpu THEN best ELSE [best EXCEPT ![cpu] = 0]
    /\ before' = <<>>
    /\ UNCHANGED <<vars, stack, saved, allocated, own, at, index, boot, met>>

-----------------------------------------------------------------------------
ExitInit ==
    /\ Init
    /\ stack = [i \in Slots |-> NoStack]
    /\ saved = [i \in Slots |-> NoPid]
    /\ allocated = {}
    /\ own = [p \in PIDs |-> NoStack]
    /\ cpu = NoPid
    /\ at = [t \in Threads |-> "body"]
    /\ index = 0 /\ best = [t \in Threads |-> 0] /\ before = <<>>
    /\ boot = InKernelMain(0)
    /\ met = {}

ExitNext ==
    \/ BootNumber \/ BootReserve \/ BootFill \/ BootPublish \/ BootClock
    \/ Keyboard \/ Clock
    \/ Kill \/ FreeStack \/ Scan \/ Pick \/ Switch \/ Publish \/ Load

ExitSpec == ExitInit /\ [][ExitNext]_allVars

-----------------------------------------------------------------------------
(* Properties                                                              *)

\* Every variable has its type.
ExitTypeOK ==
    /\ TypeOK
    /\ stack \in [Slots -> Stacks \cup {NoStack}]
    /\ own \in [PIDs -> Stacks \cup {NoStack}]
    /\ saved \in [Slots -> Threads] /\ cpu \in Threads
    /\ allocated \subseteq Stacks
    /\ at \in [Threads -> ExitPoints \cup {"body"}]
    /\ index \in 0..MaxProcess /\ best \in [Threads -> Slots]

\* process.c:131: a switch to a PID resumes the process that has it.  Each
\* process that is not running has its own context in its slot, unless an
\* interrupt has arrived on one of the two paths.
ContextIntact ==
    met = {} /\ clock_on =>
        \A i \in Slots : Live(i) /\ pid[i] # cpu => saved[i] = pid[i]

\* Nobody runs on a stack that has been given to another process, and no two
\* processes have the same one, unless an interrupt has arrived on one of the
\* two paths.
StackExclusive ==
    met = {} =>
      /\ \A i, j \in Slots : Live(i) /\ Live(j) /\ stack[i] = stack[j] => i = j
      /\ cpu # NoPid => \A i \in Slots : Live(i) /\ pid[i] # cpu => stack[i] # own[cpu]

\* process.c:60: killing a process frees its memory, and its own only.  The
\* stacks in use are those of the live processes, of the one that is created
\* and of the one whose exit is about to free it: none is lost, and no live
\* process is without; unless an interrupt has arrived on one of the two
\* paths, or the machine has halted.
StacksExact ==
    met = {} /\ ~halted =>
        allocated = {stack[i] : i \in {j \in Slots : Live(j)}}
            \cup {own[p] : p \in {q \in PIDs : at[q] = "free"}}
            \cup (IF boot.at = "kernel_main" THEN {} ELSE {boot.stack})

\* process.c:6: process 0 is the backstop, always there to start a scan from,
\* whatever arrives while a process exits.
BackstopKept == "boot" \notin met => BackstopAlive

\* Only init_process on a full table halts the machine: whatever interrupts an
\* exit meets, its scan never settles on the process that is exiting, which
\* would then return into its own PID.
HaltOnlyWhenFull == halted /\ "boot" \notin met => \A i \in Slots : Live(i)

\* process.h:15 says that a STOPPED process is dead and will not run again: no
\* switch resumes a context of the exit path.
DeadDoesNotRun == [][cpu' # cpu => at[cpu'] \notin ExitPoints]_allVars

\* process.c:6 and process.c:45 say that PID 0 is reserved for the backstop:
\* the process that gets it is one that kernel_main creates.
ZeroIsBackstop == [][next_pid' = 0 /\ next_pid # 0 => boot'.at = "reserve"]_allVars

\* Between kill_process and the end of the switch, and while kernel_main is in
\* init_process, the scheduler's view is that of the table before.
statusSeen == IF Exiting THEN before.status ELSE status
wait_timeSeen == IF Exiting THEN before.wait_time ELSE wait_time
active_pidSeen == IF Exiting THEN before.active_pid ELSE active_pid
next_pidSeen == IF boot.at = "kernel_main" THEN next_pid ELSE boot.pid - 1

Atomically == INSTANCE Scheduler WITH
    status <- statusSeen, wait_time <- wait_timeSeen,
    active_pid <- active_pidSeen, next_pid <- next_pidSeen

\* Until an interrupt arrives on one of the two paths, the statements of
\* init_process at boot, and the loop of the scan and the three stores of the
\* switch at an exit, amount to one step of Scheduler each.
ImplementsScheduler ==
    Atomically!Init /\ [][met' = {} => Atomically!Next]_(Atomically!vars)
=============================================================================
