------------------------------ MODULE Scheduler ------------------------------
(***************************************************************************)
(* The process table and the scheduler of process/process.c, one step per  *)
(* call: the clock interrupt runs switch_process_from_queue with           *)
(* interrupts off, a command of the shell runs init_process inside the     *)
(* keyboard interrupt, and a process that returns runs kill_process and    *)
(* then switch_process_from_queue.  Module ExitPath splits that last call. *)
(*                                                                         *)
(* proc_table is kept as one function per field.                           *)
(*                                                                         *)
(* An operator whose comment begins with "Mutant" is not the code: it is   *)
(* the definition after it with a bug in it, which some property refutes.  *)
(***************************************************************************)
EXTENDS Integers

CONSTANTS
    MaxProcess,     \* MAX_PROCESS
    MaxPid,         \* MAX_PID
    BootProcesses   \* how many processes kernel_main creates before the clock

ASSUME ProcessAssumption ==
    /\ MaxProcess \in Nat \ {0} /\ BootProcesses \in 1..MaxProcess
    /\ MaxPid \in Nat /\ MaxPid >= MaxProcess

Slots == 0..(MaxProcess - 1)
PIDs == 0..MaxPid
NoPid == -1
Statuses == {"STOPPED", "ACTIVE", "WAITING", "SPAWNED"}

VARIABLES
    pid, status, wait_time,   \* proc_table, by slot
    active_pid,
    next_pid,
    clock_on,                 \* init_pit has unmasked the clock interrupt
    halted                    \* the machine has stopped on a CPU exception

vars == <<pid, status, wait_time, active_pid, next_pid, clock_on, halted>>

Live(i) == status[i] # "STOPPED"

\* get_process(p) = &proc_table[i].
IsProcess(p, i) ==
    /\ Live(i) /\ pid[i] = p
    /\ \A j \in Slots : j < i => ~(Live(j) /\ pid[j] = p)

NoProcess(p) == \A i \in Slots : ~(Live(i) /\ pid[i] = p)

\* reserve_proc_table_slot() = &proc_table[i].
IsFreeSlot(i) == ~Live(i) /\ \A j \in Slots : j < i => Live(j)

\* How many increments of next_pid lead to p; after MaxPid comes 1.
PidDistance(p) == IF p > next_pid THEN p - next_pid ELSE p - next_pid + MaxPid

\* Mutant: a PID in use is not skipped.
IsFollowingPid(p) == p = (IF next_pid = MaxPid THEN 1 ELSE next_pid + 1)

\* get_next_PID() = p: the first PID after next_pid that no process has.
IsNextPid(p) ==
    LET candidates == IF next_pid = NoPid THEN PIDs ELSE 1..MaxPid
    IN  /\ p \in candidates /\ NoProcess(p)
        /\ \A q \in candidates :
             NoProcess(q) => PidDistance(p) <= PidDistance(q)

-----------------------------------------------------------------------------
(* The choice of switch_process_from_queue.                                *)

\* Mutant: the backstop is not left out.
RunnableWithBackstop(st, i) == st[i] # "STOPPED"

\* Mutant: dead processes are not left out.
RunnableEvenDead(st, i) == pid[i] # 0

\* The processes whose wait is counted: the backstop (PID 0) is not one.
Runnable(st, i) == st[i] # "STOPPED" /\ pid[i] # 0

\* Mutant: waiting is counted down.
AgedDown(st) == [i \in Slots |-> wait_time[i] - (IF Runnable(st, i) THEN 1 ELSE 0)]

\* Mutant: waiting is not counted.
NotAged(st) == wait_time

Aged(st) == [i \in Slots |-> wait_time[i] + (IF Runnable(st, i) THEN 1 ELSE 0)]

\* The scan starts from the backstop and keeps a process that has waited
\* strictly longer: the longest wait wins, the lowest slot among equals.
IsChosen(st, i) ==
    LET w == Aged(st)
        beatsBackstop(j) == Runnable(st, j) /\ \A b \in Slots :
                               st[b] # "STOPPED" /\ pid[b] = 0 => w[j] > w[b]
    IN  \/ /\ beatsBackstop(i)
           /\ \A j \in Slots : Runnable(st, j) /\ j # i =>
                w[j] < w[i] \/ (w[j] = w[i] /\ i < j)
        \/ /\ st[i] # "STOPPED" /\ pid[i] = 0
           /\ \A j \in Slots : ~beatsBackstop(j)

\* Mutant: the old process stays ACTIVE.
SwitchKeepsOld(st) ==
    \E i \in Slots :
        /\ IsChosen(st, i)
        /\ wait_time' = [Aged(st) EXCEPT ![i] = 0]
        /\ active_pid' = pid[i]
        /\ status' = [st EXCEPT ![i] = "ACTIVE"]

\* Mutant: the wait of the chosen process is not reset when it runs already.
SwitchResetsLate(st) ==
    \E i \in Slots :
        /\ IsChosen(st, i)
        /\ active_pid' = pid[i]
        /\ IF pid[i] = active_pid THEN wait_time' = Aged(st) /\ status' = st
           ELSE /\ wait_time' = [Aged(st) EXCEPT ![i] = 0]
                /\ status' = [j \in Slots |->
                                IF j = i THEN "ACTIVE"
                                ELSE IF st[j] = "ACTIVE" THEN "WAITING" ELSE st[j]]

\* switch_process_from_queue from a table whose statuses are st.
SwitchFromQueue(st) ==
    \E i \in Slots :
        /\ IsChosen(st, i)
        /\ wait_time' = [Aged(st) EXCEPT ![i] = 0]
        /\ active_pid' = pid[i]
        /\ status' = IF pid[i] = active_pid THEN st
                     ELSE [j \in Slots |->
                             IF j = i THEN "ACTIVE"
                             ELSE IF pid[j] = active_pid /\ st[j] = "ACTIVE"
                             THEN "WAITING"
                             ELSE st[j]]

-----------------------------------------------------------------------------
InitProcess ==
    \E p \in PIDs, i \in Slots :
        /\ IsNextPid(p) /\ IsFreeSlot(i)
        /\ next_pid' = p
        /\ pid' = [pid EXCEPT ![i] = p]
        /\ status' = [status EXCEPT ![i] = "SPAWNED"]
        /\ wait_time' = [wait_time EXCEPT ![i] = 0]
        /\ UNCHANGED <<active_pid, clock_on, halted>>

\* With no slot left the code goes on with a NULL process: the compiler has
\* put a trap there, and the handler of that exception halts the machine.
InitProcessFull ==
    /\ \A i \in Slots : Live(i)
    /\ \E p \in PIDs : IsNextPid(p) /\ next_pid' = p
    /\ halted' = TRUE
    /\ UNCHANGED <<pid, status, wait_time, active_pid, clock_on>>

\* kernel_main creates the backstop and its other processes, then starts the
\* clock.
Boot ==
    /\ ~clock_on /\ next_pid < BootProcesses - 1
    /\ InitProcess

StartClock ==
    /\ ~clock_on /\ next_pid = BootProcesses - 1
    /\ clock_on' = TRUE
    /\ UNCHANGED <<pid, status, wait_time, active_pid, next_pid, halted>>

\* The shell's run command, from the keyboard interrupt.
Spawn == clock_on /\ ~halted /\ (InitProcess \/ InitProcessFull)

Tick ==
    /\ clock_on /\ ~halted
    /\ SwitchFromQueue(status)
    /\ UNCHANGED <<pid, next_pid, clock_on, halted>>

\* The running process returns from its entry point; the backstop never does.
Exit ==
    /\ clock_on /\ ~halted /\ active_pid \notin {NoPid, 0}
    /\ \E k \in Slots :
         /\ IsProcess(active_pid, k)
         /\ SwitchFromQueue([status EXCEPT ![k] = "STOPPED"])
    /\ UNCHANGED <<pid, next_pid, clock_on, halted>>

Init ==
    /\ pid = [i \in Slots |-> 0]
    /\ status = [i \in Slots |-> "STOPPED"]
    /\ wait_time = [i \in Slots |-> 0]
    /\ active_pid = NoPid /\ next_pid = NoPid
    /\ clock_on = FALSE /\ halted = FALSE

Next == Boot \/ StartClock \/ Spawn \/ Tick \/ Exit

\* The clock interrupt keeps coming, and kernel_main gets as far as the clock.
Spec == Init /\ [][Next]_vars /\ WF_vars(Tick) /\ WF_vars(Boot \/ StartClock)

-----------------------------------------------------------------------------
(* Properties                                                              *)

\* Every variable has its type.
TypeOK ==
    /\ pid \in [Slots -> PIDs]
    /\ status \in [Slots -> Statuses]
    /\ wait_time \in [Slots -> Nat]
    /\ active_pid \in PIDs \cup {NoPid}
    /\ next_pid \in PIDs \cup {NoPid}
    /\ clock_on \in BOOLEAN /\ halted \in BOOLEAN

\* get_process finds the only live process with a PID, also after the PIDs
\* have wrapped around past MAX_PID onto those of old processes.
UniquePids ==
    \A i, j \in Slots : Live(i) /\ Live(j) /\ pid[i] = pid[j] => i = j

\* PID 0 stays with the backstop, which stays alive in slot 0 for
\* get_process(0) to find: the scheduler never starts from NULL.
BackstopAlive ==
    clock_on => /\ Live(0) /\ pid[0] = 0 /\ wait_time[0] = 0
                /\ \A i \in Slots : Live(i) /\ i # 0 => pid[i] # 0

\* From the first tick on, the process marked ACTIVE is the one that
\* active_pid names, and it is alive.
ActiveIsCurrent ==
    \A i \in Slots : status[i] = "ACTIVE" <=> (Live(i) /\ pid[i] = active_pid)

\* The processes that the next scans prefer to i.
Ahead(i) ==
    {j \in Slots : /\ j # i /\ Runnable(status, j)
                   /\ wait_time[j] > wait_time[i]
                        \/ (wait_time[j] = wait_time[i] /\ j < i)}

\* No process waits through more than MAX_PROCESS - 2 decisions of the
\* scheduler without running, whatever is spawned and whatever exits; so
\* wait_time never nears the width of its uint32_t.
BoundedWait ==
    \A i \in Slots : Runnable(status, i) => wait_time[i] <= MaxProcess - 2

\* The comment at process.c:6: the backstop is switched to only when there is
\* no other process.
BackstopLast ==
    [][active_pid' = 0 /\ active_pid # 0 => \A i \in Slots : ~Runnable(status', i)]_vars

\* Every process that exists comes to run, unless the machine halts.
EveryoneRuns ==
    \A i \in Slots, p \in PIDs \ {0} :
        (Live(i) /\ pid[i] = p) ~> (active_pid = p \/ NoProcess(p) \/ halted)
=============================================================================
