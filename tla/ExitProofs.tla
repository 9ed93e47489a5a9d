----------------------------- MODULE ExitProofs -----------------------------
(* The safety properties of ExitPath, and that it implements Scheduler, for *)
(* every number of slots, PIDs and stacks.                                  *)
EXTENDS ExitPath, SchedulerProofs

BootPoints == {"kernel_main", "reserve", "fill", "publish"}

\* The locals of kernel_main have their types; the clock runs once all of its
\* processes are made.
BootTyped ==
    /\ boot \in [at : BootPoints, made : 0..BootProcesses, pid : Threads,
                 slot : Slots, stack : Stacks \cup {NoStack}]
    /\ boot.at # "kernel_main" =>
         boot.pid \in PIDs /\ boot.stack \in Stacks /\ boot.made < BootProcesses
    /\ clock_on => boot.at = "kernel_main" /\ boot.made = BootProcesses

Typed == ExitTypeOK /\ BootTyped

\* Until the clock runs, kernel_main fills the slots from 0 upwards with the
\* PIDs from 0 upwards, unless a command arrives.
BootInv ==
    ~clock_on /\ "boot" \notin met =>
      /\ met = {} /\ ~halted /\ cpu = NoPid /\ active_pid = NoPid
      /\ \A t \in Threads : at[t] = "body"
      /\ \A i \in Slots : /\ Live(i) <=> i < boot.made
                          /\ Live(i) => /\ status[i] = "SPAWNED" /\ wait_time[i] = 0
                                        /\ pid[i] = i /\ saved[i] = i
      /\ next_pid = IF boot.at = "kernel_main" THEN boot.made - 1 ELSE boot.made
      /\ boot.at # "kernel_main" => boot.pid = boot.made
      /\ boot.at \in {"fill", "publish"} => boot.slot = boot.made
      /\ boot.at = "publish" => /\ saved[boot.slot] = boot.pid
                                /\ stack[boot.slot] = boot.stack
                                /\ own[boot.pid] = boot.stack

\* PIDs are given in increasing order, so a live process is not one that has
\* exited.  What a slot resumes is its process, or an exit path that was
\* interrupted after it had made that process the active one.
ProcessInv ==
    /\ \A i \in Slots : Live(i) =>
         /\ pid[i] <= next_pid /\ at[pid[i]] = "body"
         /\ \/ saved[i] = pid[i]
            \/ at[saved[i]] = "load" /\ best[saved[i]] = i
    /\ \A p \in PIDs : at[p] # "body" => p <= next_pid
    /\ at[NoPid] = "body"

\* active_pid names the running process until it publishes another; from its
\* scan on, its local proc is a live process.
CpuInv ==
    /\ at[cpu] # "load" => cpu = active_pid
    /\ at[cpu] = "body" => cpu = NoPid \/ \E i \in Slots : Live(i) /\ pid[i] = cpu
    /\ at[cpu] \in {"scan", "switch", "publish", "load"} => Live(best[cpu])
    /\ at[cpu] = "load" => pid[best[cpu]] = active_pid
    /\ halted => \A i \in Slots : Live(i)

RunInv ==
    clock_on /\ "boot" \notin met =>
      UniquePids /\ BackstopInv /\ ProcessInv /\ CpuInv

\* While no interrupt has arrived on either path: every live process has its
\* own context and its own stack, which the running process does not stand on;
\* the one that is about to free its stack finds it in its former slot.
StackInv ==
    met = {} =>
      /\ \A i \in Slots : Live(i) => saved[i] = pid[i] /\ stack[i] = own[pid[i]]
      /\ \A i, j \in Slots : Live(i) /\ Live(j) /\ stack[i] = stack[j] => i = j
      /\ cpu # NoPid => \A i \in Slots : Live(i) /\ pid[i] # cpu => stack[i] # own[cpu]
      /\ \A p \in PIDs : at[p] = "free" => p = cpu
      /\ at[cpu] = "free" => stack[best[cpu]] = own[cpu]
      /\ boot.at # "kernel_main" => \A i \in Slots : Live(i) => stack[i] # boot.stack

ExitIInv == Typed /\ BootInv /\ RunInv /\ StackInv /\ StacksExact

-----------------------------------------------------------------------------
(* Types                                                                   *)

LEMMA PidsAndThreads ==
  /\ 0 \in PIDs /\ NoPid \in Threads /\ NoPid \notin PIDs /\ PIDs \subseteq Threads
  /\ \A t \in Threads : t # NoPid => t \in PIDs
  /\ \A p \in PIDs : p \in Nat
BY ProcessAssumption DEF PIDs, Threads, NoPid

LEMMA InitTyped == ExitInit => Typed
<1> SUFFICES ASSUME ExitInit PROVE Typed
  OBVIOUS
<1>1. TypeOK
  BY InitIInv DEF ExitInit, IInv
<1>2. /\ stack \in [Slots -> Stacks \cup {NoStack}]
      /\ own \in [PIDs -> Stacks \cup {NoStack}]
      /\ saved \in [Slots -> Threads] /\ cpu \in Threads /\ allocated \subseteq Stacks
  BY PidsAndThreads DEF ExitInit
<1>3. at \in [Threads -> ExitPoints \cup {"body"}]
  BY DEF ExitInit
<1>4. index \in 0..MaxProcess /\ best \in [Threads -> Slots]
  BY SlotsFinite, ProcessAssumption DEF ExitInit
<1>5. BootTyped
  BY SlotsFinite, PidsAndThreads, ProcessAssumption
     DEF ExitInit, Init, BootTyped, InKernelMain, BootPoints
<1> QED
  BY <1>1, <1>2, <1>3, <1>4, <1>5 DEF Typed, ExitTypeOK

\* A decision of the scheduler keeps the types of the table.
LEMMA DecisionKeepsTypes ==
  ASSUME TypeOK, SwitchFromQueue(status),
         UNCHANGED <<pid, next_pid, clock_on, halted>>
  PROVE  TypeOK'
<1>1. Aged(status) \in [Slots -> Nat]
  BY DEF TypeOK, Aged
<1>2. PICK c \in Slots :
        /\ wait_time' = [Aged(status) EXCEPT ![c] = 0]
        /\ active_pid' = pid[c]
        /\ status' = IF pid[c] = active_pid THEN status
                     ELSE [j \in Slots |->
                             IF j = c THEN "ACTIVE"
                             ELSE IF pid[j] = active_pid /\ status[j] = "ACTIVE"
                             THEN "WAITING"
                             ELSE status[j]]
  BY DEF SwitchFromQueue
<1>3. wait_time' \in [Slots -> Nat]
  BY <1>1, <1>2
<1>4. status' \in [Slots -> Statuses]
  BY <1>2 DEF TypeOK, Statuses
<1> QED
  BY <1>2, <1>3, <1>4 DEF TypeOK

\* init_process keeps the types of the table, with or without a slot left.
LEMMA InitProcessKeepsTypes ==
  ASSUME TypeOK, InitProcess \/ InitProcessFull
  PROVE  TypeOK' /\ next_pid' \in PIDs
<1>1. CASE InitProcess
  BY <1>1 DEF InitProcess, TypeOK, Statuses
<1>2. CASE InitProcessFull
  BY <1>2 DEF InitProcessFull, TypeOK
<1> QED
  BY <1>1, <1>2

LEMMA BootKeepsTypes ==
  ASSUME Typed, BootNumber \/ BootReserve \/ BootFill \/ BootPublish \/ BootClock
  PROVE  Typed'
<1> USE DEF Typed, ExitTypeOK
<1>1. CASE BootNumber
  <2>1. PICK p \in PIDs, s \in FreeStacks :
          /\ next_pid' = p /\ allocated' = allocated \cup {s}
          /\ boot' = [boot EXCEPT !.at = "reserve", !.pid = p, !.stack = s]
    BY <1>1 DEF BootNumber
  <2>2. TypeOK'
    BY <1>1, <2>1 DEF BootNumber, TypeOK
  <2>3. ~clock_on
    <3>1. boot.made \in 0..BootProcesses /\ (clock_on => boot.made = BootProcesses)
      BY DEF BootTyped
    <3>2. boot.made < BootProcesses
      BY <1>1 DEF BootNumber
    <3> QED
      BY <3>1, <3>2, ProcessAssumption
  <2>4. BootTyped'
    BY <1>1, <2>1, <2>3, PidsAndThreads DEF BootTyped, BootNumber, BootPoints, FreeStacks
  <2>5. UNCHANGED <<stack, saved, own, cpu, at, index, best>>
    BY <1>1 DEF BootNumber, locals
  <2>6. allocated' \subseteq Stacks
    BY <2>1 DEF FreeStacks
  <2> QED
    BY <2>2, <2>4, <2>5, <2>6
<1>2. CASE BootReserve
  <2>1. TypeOK'
    BY <1>2 DEF BootReserve, TypeOK
  <2>2. BootTyped'
    BY <1>2 DEF BootTyped, BootReserve, BootPoints
  <2> QED
    BY <1>2, <2>1, <2>2 DEF BootReserve, contextVars, locals
<1>3. CASE BootFill
  <2>1. TypeOK'
    BY <1>3 DEF BootFill, vars, TypeOK
  <2>2. BootTyped'
    BY <1>3 DEF BootTyped, BootFill, BootPoints, vars
  <2>3. /\ stack' \in [Slots -> Stacks \cup {NoStack}] /\ saved' \in [Slots -> Threads]
        /\ own' \in [PIDs -> Stacks \cup {NoStack}]
    BY <1>3 DEF BootTyped, BootFill
  <2> QED
    BY <1>3, <2>1, <2>2, <2>3 DEF BootFill, locals
<1>4. CASE BootPublish
  <2>1. boot.pid \in PIDs /\ boot.slot \in Slots /\ boot.made \in 0..(BootProcesses - 1)
    BY <1>4, ProcessAssumption DEF BootTyped, BootPublish
  <2>2. TypeOK'
    BY <1>4, <2>1 DEF BootPublish, TypeOK, Statuses
  <2>3. ~clock_on
    BY <1>4 DEF BootTyped, BootPublish
  <2>4. BootTyped'
    BY <1>4, <2>1, <2>3, SlotsFinite, PidsAndThreads, ProcessAssumption
       DEF BootTyped, BootPublish, BootPoints, InKernelMain
  <2> QED
    BY <1>4, <2>2, <2>4 DEF BootPublish, contextVars, locals
<1>5. CASE BootClock
  <2>1. TypeOK'
    BY <1>5 DEF BootClock, TypeOK
  <2>2. BootTyped'
    BY <1>5, ProcessAssumption DEF BootTyped, BootClock, BootPoints
  <2> QED
    BY <1>5, <2>1, <2>2 DEF BootClock, contextVars, locals
<1> QED
  BY <1>1, <1>2, <1>3, <1>4, <1>5

LEMMA InterruptsKeepTypes ==
  ASSUME Typed, Keyboard \/ Clock
  PROVE  Typed'
<1> USE DEF Typed, ExitTypeOK
<1>1. CASE Keyboard
  <2>1. TypeOK' /\ next_pid' \in PIDs /\ clock_on' = clock_on
    BY <1>1, InitProcessKeepsTypes DEF Keyboard, InitProcess, InitProcessFull
  <2>2. BootTyped'
    BY <1>1, <2>1 DEF BootTyped, Keyboard, Interrupt
  <2>3. PICK s \in FreeStacks :
          /\ allocated' = allocated \cup {s}
          /\ IF halted' THEN UNCHANGED <<stack, saved, own, at>>
             ELSE \E i \in Slots :
                    /\ IsFreeSlot(i)
                    /\ stack' = [stack EXCEPT ![i] = s]
                    /\ saved' = [saved EXCEPT ![i] = next_pid']
                    /\ own' = [own EXCEPT ![next_pid'] = s]
                    /\ at' = [at EXCEPT ![next_pid'] = "body"]
    BY <1>1 DEF Keyboard
  <2>4. /\ stack' \in [Slots -> Stacks \cup {NoStack}] /\ saved' \in [Slots -> Threads]
        /\ own' \in [PIDs -> Stacks \cup {NoStack}]
        /\ at' \in [Threads -> ExitPoints \cup {"body"}]
    BY <2>1, <2>3, PidsAndThreads DEF FreeStacks
  <2> QED
    BY <1>1, <2>1, <2>2, <2>3, <2>4 DEF Keyboard, FreeStacks, locals
<1>2. CASE Clock
  <2>1. TypeOK'
    BY <1>2, DecisionKeepsTypes DEF Clock, Tick
  <2>2. BootTyped'
    BY <1>2 DEF Clock, Tick, BootTyped, Interrupt
  <2>3. cpu' \in Threads /\ saved' \in [Slots -> Threads]
    BY <1>2 DEF Clock, SaveContext
  <2> QED
    BY <1>2, <2>1, <2>2, <2>3 DEF Clock
<1> QED
  BY <1>1, <1>2

LEMMA ExitKeepsTypes ==
  ASSUME Typed, Kill \/ FreeStack \/ Scan \/ Pick \/ Switch \/ Publish \/ Load
  PROVE  Typed'
<1> USE DEF Typed, ExitTypeOK
<1>1. ASSUME NEW point \in ExitPoints, GoTo(point)
      PROVE  at' \in [Threads -> ExitPoints \cup {"body"}]
  BY <1>1 DEF GoTo
<1>2. CASE Kill
  <2>1. TypeOK'
    BY <1>2 DEF Kill, TypeOK, Statuses
  <2>2. BootTyped'
    BY <1>2 DEF Kill, BootTyped
  <2> QED
    BY <1>2, <1>1, <2>1, <2>2 DEF Kill, ExitPoints
<1>3. CASE FreeStack
  <2>1. TypeOK'
    BY <1>3 DEF FreeStack, vars, TypeOK
  <2>2. BootTyped'
    BY <1>3 DEF FreeStack, vars, BootTyped
  <2>3. best' \in [Threads -> Slots] /\ index' \in 0..MaxProcess
    BY <1>3, ProcessAssumption DEF FreeStack
  <2> QED
    BY <1>3, <1>1, <2>1, <2>2, <2>3 DEF FreeStack, ExitPoints
<1>4. CASE Scan
  <2>1. index \in Slots /\ index + 1 \in 0..MaxProcess
    BY <1>4, ProcessAssumption DEF Scan, Slots
  <2>2. wait_time' \in [Slots -> Nat] /\ best' \in [Threads -> Slots]
    BY <1>4, <2>1 DEF Scan, TypeOK
  <2>3. TypeOK'
    BY <1>4, <2>2 DEF Scan, TypeOK
  <2>4. BootTyped'
    BY <1>4 DEF Scan, BootTyped
  <2> QED
    BY <1>4, <2>1, <2>2, <2>3, <2>4 DEF Scan, contextVars
<1>5. CASE Pick
  <2>1. TypeOK'
    BY <1>5 DEF Pick, TypeOK
  <2>2. BootTyped'
    BY <1>5 DEF Pick, BootTyped
  <2> QED
    BY <1>5, <1>1, <2>1, <2>2 DEF Pick, ExitPoints
<1>6. CASE Switch
  <2>1. TypeOK'
    BY <1>6 DEF Switch, TypeOK, Statuses
  <2>2. BootTyped'
    BY <1>6 DEF Switch, BootTyped
  <2> QED
    BY <1>6, <1>1, <2>1, <2>2 DEF Switch, ExitPoints, locals
<1>7. CASE Publish
  <2>1. TypeOK'
    BY <1>7 DEF Publish, TypeOK
  <2>2. BootTyped'
    BY <1>7 DEF Publish, BootTyped
  <2> QED
    BY <1>7, <1>1, <2>1, <2>2 DEF Publish, ExitPoints, locals
<1>8. CASE Load
  <2>1. TypeOK'
    BY <1>8 DEF Load, vars, TypeOK
  <2>2. BootTyped'
    BY <1>8 DEF Load, vars, BootTyped
  <2>3. best' \in [Threads -> Slots]
    BY <1>8, SlotsFinite DEF Load
  <2> QED
    BY <1>8, <2>1, <2>2, <2>3 DEF Load
<1> QED
  BY <1>2, <1>3, <1>4, <1>5, <1>6, <1>7, <1>8
-----------------------------------------------------------------------------
(* Boot                                                                    *)

\* PIDs do not wrap: the next one is the successor of the last.
LEMMA NextPidIsSuccessor ==
  ASSUME TypeOK, next_pid < MaxPid,
         \A i \in Slots : Live(i) => pid[i] <= next_pid,
         NEW p \in PIDs, IsNextPid(p)
  PROVE  p = next_pid + 1
<1> DEFINE s == next_pid + 1
<1>1. next_pid \in -1..MaxPid /\ MaxPid \in Nat
  BY ProcessAssumption DEF TypeOK, PIDs, NoPid
<1>2. s \in PIDs /\ (next_pid # NoPid => s \in 1..MaxPid)
  BY <1>1 DEF PIDs, NoPid
<1>3. NoProcess(s)
  BY <1>1 DEF NoProcess, TypeOK, PIDs
<1>4. PidDistance(p) <= PidDistance(s)
  BY <1>2, <1>3 DEF IsNextPid
<1>5. PidDistance(s) = 1
  BY <1>1 DEF PidDistance
<1>6. p \in 0..MaxPid /\ (next_pid # NoPid => p >= 1)
  BY DEF IsNextPid, PIDs
<1>7. CASE p > next_pid
  <2>1. p - next_pid <= 1
    BY <1>7, <1>4, <1>5 DEF PidDistance
  <2> QED
    BY <2>1, <1>1, <1>6, <1>7
<1>8. CASE ~(p > next_pid)
  <2>1. p - next_pid + MaxPid <= 1
    BY <1>8, <1>4, <1>5 DEF PidDistance
  <2> QED
    BY <2>1, <1>1, <1>6, <1>8 DEF NoPid
<1> QED
  BY <1>7, <1>8

LEMMA InitExitIInv == ExitInit => ExitIInv
<1> SUFFICES ASSUME ExitInit PROVE ExitIInv
  OBVIOUS
<1>1. Typed
  BY InitTyped
<1>2. \A i \in Slots : ~Live(i) /\ ~(i < 0)
  BY ProcessAssumption DEF ExitInit, Init, Live, Slots
<1>3. BootInv
  BY <1>2 DEF ExitInit, Init, BootInv, InKernelMain, NoPid
<1>4. RunInv
  BY DEF ExitInit, Init, RunInv
<1>5. StackInv
  BY <1>2, PidsAndThreads DEF ExitInit, StackInv, InKernelMain
<1>6. StacksExact
  BY <1>2, PidsAndThreads DEF ExitInit, StacksExact, InKernelMain
<1> QED
  BY <1>1, <1>3, <1>4, <1>5, <1>6 DEF ExitIInv

\* kernel_main makes its processes in slots 0, 1, ...
LEMMA BootStep ==
  ASSUME ExitIInv, ~clock_on, "boot" \notin met,
         BootNumber \/ BootReserve \/ BootFill \/ BootPublish
  PROVE  BootInv' /\ StackInv' /\ StacksExact'
<1> USE DEF ExitIInv
<1>0. Typed'
  BY BootKeepsTypes
<1>1. /\ met = {} /\ ~halted /\ cpu = NoPid /\ active_pid = NoPid
      /\ \A t \in Threads : at[t] = "body"
      /\ boot.made \in 0..BootProcesses /\ BootProcesses \in 1..MaxProcess
      /\ MaxProcess \in Nat
  BY ProcessAssumption DEF BootInv, Typed, BootTyped
<1>2. /\ UNCHANGED <<met, cpu, active_pid, clock_on, at>>
      /\ \A p \in PIDs : at[p] # "free"
  BY <1>1, PidsAndThreads
     DEF BootNumber, BootReserve, BootFill, BootPublish, contextVars, vars
<1>3. \A i \in Slots : /\ Live(i) <=> i < boot.made
                       /\ Live(i) => /\ status[i] = "SPAWNED" /\ wait_time[i] = 0
                                     /\ pid[i] = i /\ saved[i] = i /\ stack[i] = own[i]
  BY <1>1 DEF BootInv, StackInv
<1>4. /\ \A i, j \in Slots : Live(i) /\ Live(j) /\ stack[i] = stack[j] => i = j
      /\ boot.at # "kernel_main" => \A i \in Slots : Live(i) => stack[i] # boot.stack
      /\ allocated = {stack[i] : i \in {j \in Slots : Live(j)}}
            \cup (IF boot.at = "kernel_main" THEN {} ELSE {boot.stack})
  BY <1>1, <1>2 DEF StackInv, StacksExact
<1>5. CASE BootNumber
  <2>1. PICK p \in PIDs, s \in FreeStacks :
          /\ IsNextPid(p) /\ next_pid' = p
          /\ allocated' = allocated \cup {s}
          /\ boot' = [boot EXCEPT !.at = "reserve", !.pid = p, !.stack = s]
    BY <1>5 DEF BootNumber
  <2>2. /\ boot.at = "kernel_main" /\ next_pid = boot.made - 1 /\ next_pid < MaxPid
        /\ UNCHANGED <<pid, status, wait_time, halted, stack, saved, own>>
    BY <1>1, <1>5 DEF BootNumber, BootInv
  <2>3. p = boot.made
    <3>1. \A i \in Slots : Live(i) => pid[i] <= next_pid
      BY <1>1, <1>3, <2>2 DEF Slots
    <3> QED
      BY <3>1, <1>1, <2>1, <2>2, NextPidIsSuccessor DEF Typed, ExitTypeOK
  <2>4. boot'.at = "reserve" /\ boot'.made = boot.made /\ boot'.pid = p /\ boot'.stack = s
    BY <2>1 DEF Typed, BootTyped
  <2>5. BootInv'
    BY <1>1, <1>2, <1>3, <2>1, <2>2, <2>3, <2>4 DEF BootInv, Live
  <2>6. \A i \in Slots : Live(i) => stack[i] # s
    BY <1>4 DEF FreeStacks
  <2>7. StackInv'
    BY <1>1, <1>2, <1>3, <1>4, <2>2, <2>4, <2>6, PidsAndThreads DEF StackInv, Live
  <2>8. StacksExact'
    BY <1>1, <1>2, <1>4, <2>1, <2>2, <2>4 DEF StacksExact, Live
  <2> QED
    BY <2>5, <2>7, <2>8
<1>6. CASE BootReserve
  <2>1. /\ boot.at = "reserve" /\ boot.made < BootProcesses
        /\ UNCHANGED <<pid, status, wait_time, next_pid, stack, saved, own, allocated>>
    BY <1>6 DEF BootReserve, Typed, BootTyped, contextVars
  <2>2. boot.made \in Slots /\ ~Live(boot.made)
    BY <1>1, <1>3, <2>1 DEF Slots
  <2>3. PICK i \in Slots : /\ IsFreeSlot(i) /\ UNCHANGED halted
                           /\ boot' = [boot EXCEPT !.at = "fill", !.slot = i]
    BY <1>6, <2>2 DEF BootReserve
  <2>4. i = boot.made
    BY <2>3, <2>2, <1>3, <1>1 DEF IsFreeSlot, Slots
  <2>5. /\ boot'.at = "fill" /\ boot'.made = boot.made /\ boot'.slot = i
        /\ boot'.pid = boot.pid /\ boot'.stack = boot.stack
    BY <2>3 DEF Typed, BootTyped
  <2>6. BootInv'
    BY <1>1, <1>2, <2>1, <2>3, <2>4, <2>5 DEF BootInv, Live
  <2>7. StackInv'
    BY <1>1, <1>2, <2>1, <2>5, PidsAndThreads DEF StackInv, Live
  <2>8. StacksExact'
    BY <1>1, <1>2, <1>4, <2>1, <2>5 DEF StacksExact, Live
  <2> QED
    BY <2>6, <2>7, <2>8
<1>7. CASE BootFill
  <2>1. /\ boot.at = "fill" /\ boot.slot = boot.made /\ boot.pid = boot.made
        /\ boot.made < BootProcesses /\ boot.pid \in PIDs /\ boot.slot \in Slots
        /\ UNCHANGED <<pid, status, wait_time, next_pid, halted, allocated>>
        /\ stack' = [stack EXCEPT ![boot.slot] = boot.stack]
        /\ saved' = [saved EXCEPT ![boot.slot] = boot.pid]
        /\ own' = [own EXCEPT ![boot.pid] = boot.stack]
        /\ boot' = [boot EXCEPT !.at = "publish"]
    BY <1>7 DEF BootFill, BootInv, Typed, BootTyped, vars
  <2>2. /\ boot'.at = "publish" /\ boot'.made = boot.made /\ boot'.slot = boot.slot
        /\ boot'.pid = boot.pid /\ boot'.stack = boot.stack
    BY <2>1 DEF Typed, BootTyped
  <2>3. /\ saved'[boot.slot] = boot.pid /\ stack'[boot.slot] = boot.stack
        /\ own'[boot.pid] = boot.stack
    BY <2>1 DEF Typed, ExitTypeOK
  <2>4. \A i \in Slots : Live(i) => /\ saved'[i] = saved[i] /\ stack'[i] = stack[i]
                                    /\ pid[i] = i /\ own'[pid[i]] = own[pid[i]]
    <3> SUFFICES ASSUME NEW i \in Slots, Live(i)
                 PROVE  /\ saved'[i] = saved[i] /\ stack'[i] = stack[i]
                        /\ pid[i] = i /\ own'[pid[i]] = own[pid[i]]
      OBVIOUS
    <3>1. i # boot.made /\ pid[i] = i
      BY <1>1, <1>3 DEF Slots
    <3>2. pid[i] \in PIDs
      BY DEF Typed, ExitTypeOK, TypeOK
    <3> QED
      BY <3>1, <3>2, <2>1 DEF Typed, ExitTypeOK
  <2>5. \A i \in Slots : Live(i)' <=> Live(i)
    BY <2>1 DEF Live
  <2>6. BootInv'
    BY <1>1, <1>2, <1>3, <2>1, <2>2, <2>3, <2>4, <2>5 DEF BootInv
  <2>7. StackInv'
    BY <1>1, <1>2, <1>3, <1>4, <2>1, <2>2, <2>4, <2>5, PidsAndThreads DEF StackInv
  <2>8. {stack'[i] : i \in {j \in Slots : Live(j)'}} = {stack[i] : i \in {j \in Slots : Live(j)}}
    BY <2>4, <2>5
  <2>9. StacksExact'
    BY <1>1, <1>2, <1>4, <2>1, <2>2, <2>8 DEF StacksExact
  <2> QED
    BY <2>6, <2>7, <2>9
<1>8. CASE BootPublish
  <2>1. /\ boot.at = "publish" /\ boot.slot = boot.made /\ boot.pid = boot.made
        /\ boot.made < BootProcesses /\ boot.pid \in PIDs /\ boot.slot \in Slots
        /\ saved[boot.slot] = boot.pid /\ stack[boot.slot] = boot.stack
        /\ own[boot.pid] = boot.stack /\ next_pid = boot.made
    BY <1>8 DEF BootPublish, BootInv, Typed, BootTyped
  <2>2. PICK m \in Slots : m = boot.made
    BY <2>1
  <2>3. /\ UNCHANGED <<next_pid, halted, allocated, stack, saved, own>>
        /\ pid' = [pid EXCEPT ![m] = m]
        /\ status' = [status EXCEPT ![m] = "SPAWNED"]
        /\ wait_time' = [wait_time EXCEPT ![m] = 0]
        /\ boot'.at = "kernel_main" /\ boot'.made = m + 1
    BY <1>8, <2>1, <2>2 DEF BootPublish, contextVars, InKernelMain
  <2>4. /\ pid'[m] = m /\ status'[m] = "SPAWNED" /\ wait_time'[m] = 0
        /\ \A i \in Slots \ {m} :
             pid'[i] = pid[i] /\ status'[i] = status[i] /\ wait_time'[i] = wait_time[i]
    BY <2>3 DEF Typed, ExitTypeOK, TypeOK
  <2>5. \A i \in Slots : Live(i)' <=> Live(i) \/ i = m
    BY <2>4 DEF Live
  <2>6. \A i \in Slots : Live(i)' <=> i < m + 1
    BY <1>1, <1>3, <2>2, <2>5 DEF Slots
  <2>7. \A i \in Slots : Live(i)' => /\ status'[i] = "SPAWNED" /\ wait_time'[i] = 0
                                     /\ pid'[i] = i /\ saved'[i] = i /\ stack'[i] = own'[i]
    BY <1>3, <2>1, <2>2, <2>3, <2>4, <2>5
  <2>8. BootInv'
    BY <1>1, <1>2, <2>1, <2>2, <2>3, <2>6, <2>7 DEF BootInv
  <2>9. StackInv'
    BY <1>1, <1>2, <1>4, <2>1, <2>2, <2>3, <2>5, <2>7, PidsAndThreads DEF StackInv
  <2>10. StacksExact'
    <3>1. {stack[i] : i \in {j \in Slots : Live(j)'}}
            = {stack[i] : i \in {j \in Slots : Live(j)}} \cup {boot.stack}
      BY <2>1, <2>2, <2>5
    <3> QED
      BY <3>1, <1>1, <1>2, <1>4, <2>1, <2>3 DEF StacksExact
  <2> QED
    BY <2>8, <2>9, <2>10
<1> QED
  BY <1>5, <1>6, <1>7, <1>8

-----------------------------------------------------------------------------
(* From the first clock interrupt on.                                      *)

\* What every step with the clock on may assume of the table.
Running ==
    /\ Typed /\ clock_on /\ "boot" \notin met
    /\ UniquePids /\ BackstopInv /\ ProcessInv /\ CpuInv

LEMMA BootClockStep ==
  ASSUME ExitIInv, ~clock_on, "boot" \notin met, BootClock
  PROVE  Running' /\ StackInv' /\ StacksExact'
<1> USE DEF ExitIInv
<1>1. Typed'
  BY BootKeepsTypes
<1>2. /\ met = {} /\ ~halted /\ cpu = NoPid /\ active_pid = NoPid
      /\ \A t \in Threads : at[t] = "body"
      /\ boot.made = BootProcesses /\ boot.at = "kernel_main"
      /\ BootProcesses \in 1..MaxProcess /\ MaxProcess \in Nat
      /\ next_pid = BootProcesses - 1
      /\ \A i \in Slots : /\ Live(i) <=> i < BootProcesses
                          /\ Live(i) => pid[i] = i /\ saved[i] = i /\ wait_time[i] = 0
  BY ProcessAssumption DEF BootInv, BootClock, Typed, BootTyped
<1>3. /\ clock_on'
      /\ UNCHANGED <<pid, status, wait_time, active_pid, next_pid, halted>>
      /\ UNCHANGED <<stack, saved, allocated, own, cpu, at>>
      /\ UNCHANGED <<index, best, before, boot, met>>
  BY DEF BootClock, contextVars, locals
<1>4. \A i \in Slots : Live(i)' <=> Live(i)
  BY <1>3 DEF Live
<1>5. UniquePids'
  BY <1>2, <1>3, <1>4 DEF UniquePids
<1>6. BackstopInv'
  BY <1>2, <1>3, <1>4, SlotsFinite DEF BackstopInv, NoPid
<1>7. ProcessInv'
  <2>1. \A i \in Slots : Live(i) => pid[i] \in PIDs /\ pid[i] <= next_pid
    BY <1>2 DEF Typed, ExitTypeOK, TypeOK, Slots
  <2> QED
    BY <2>1, <1>2, <1>3, <1>4, PidsAndThreads DEF ProcessInv
<1>8. CpuInv'
  BY <1>2, <1>3, PidsAndThreads DEF CpuInv
<1>9. StackInv' /\ StacksExact'
  BY <1>3, <1>4 DEF StackInv, StacksExact
<1> QED
  BY <1>1, <1>2, <1>3, <1>5, <1>6, <1>7, <1>8, <1>9 DEF Running

\* A process on its exit path is none of the live ones.
LEMMA ExitingIsDead ==
  ASSUME Running, Exiting
  PROVE  /\ cpu \in PIDs
         /\ \A i \in Slots : Live(i) => pid[i] # cpu /\ pid[i] \in PIDs
         /\ boot.at = "kernel_main"
<1>1. at[cpu] # "body"
  BY DEF Exiting, ExitPoints
<1> QED
  BY <1>1, PidsAndThreads
     DEF Running, Typed, BootTyped, ExitTypeOK, TypeOK, ProcessInv

\* A step along the exit path, before the next process is loaded.
LEMMA LocalStep ==
  ASSUME Running, at[cpu] \in {"free", "scan", "switch", "publish"},
         UNCHANGED <<pid, next_pid, saved, cpu, clock_on>>,
         NEW x \in ExitPoints, at' = [at EXCEPT ![cpu] = x],
         \A t \in Threads : t # cpu => best'[t] = best[t],
         \A i \in Slots : Live(i)' <=> Live(i),
         wait_time'[0] = 0
  PROVE  UniquePids' /\ BackstopInv' /\ ProcessInv' /\ at'[cpu] = x
<1>1. /\ cpu \in PIDs /\ cpu \in Threads
      /\ \A i \in Slots : Live(i) => pid[i] # cpu /\ pid[i] \in Threads
  BY ExitingIsDead, PidsAndThreads DEF Exiting, ExitPoints
<1>2. at'[cpu] = x /\ \A t \in Threads : t # cpu => at'[t] = at[t]
  BY <1>1 DEF Running, Typed, ExitTypeOK
<1>3. UniquePids' /\ BackstopInv'
  BY SlotsFinite DEF Running, UniquePids, BackstopInv
<1>4. ProcessInv'
  <2>1. ASSUME NEW i \in Slots, Live(i)
        PROVE  /\ pid[i] <= next_pid /\ at'[pid[i]] = "body"
               /\ \/ saved[i] = pid[i]
                  \/ at'[saved[i]] = "load" /\ best'[saved[i]] = i
    <3>1. /\ pid[i] <= next_pid /\ at[pid[i]] = "body" /\ saved[i] \in Threads
          /\ \/ saved[i] = pid[i]
             \/ at[saved[i]] = "load" /\ best[saved[i]] = i
      BY <2>1 DEF Running, ProcessInv, Typed, ExitTypeOK
    <3>2. at[saved[i]] = "load" => saved[i] # cpu
      OBVIOUS
    <3> QED
      BY <3>1, <3>2, <1>1, <1>2, <2>1
  <2>2. \A p \in PIDs : at'[p] # "body" => p <= next_pid
    <3>1. cpu <= next_pid
      BY <1>1 DEF Running, ProcessInv
    <3> QED
      BY <3>1, <1>2, PidsAndThreads DEF Running, ProcessInv
  <2>3. at'[NoPid] = "body"
    BY <1>1, <1>2, PidsAndThreads DEF Running, ProcessInv
  <2> QED
    BY <2>1, <2>2, <2>3 DEF ProcessInv
<1> QED
  BY <1>2, <1>3, <1>4

\* The stacks during such a step, once the process has freed its own.
LEMMA LocalStepStacks ==
  ASSUME Running, StackInv, StacksExact, ~halted,
         at[cpu] \in {"scan", "switch", "publish"},
         UNCHANGED <<pid, stack, saved, allocated, own, cpu, boot, met>>,
         NEW x \in ExitPoints \ {"free"}, at' = [at EXCEPT ![cpu] = x],
         \A i \in Slots : Live(i)' <=> Live(i)
  PROVE  StackInv' /\ StacksExact'
<1>1. cpu \in Threads /\ at'[cpu] = x /\ \A t \in Threads : t # cpu => at'[t] = at[t]
  BY DEF Running, Typed, ExitTypeOK
<1>2. \A p \in PIDs : at'[p] = "free" <=> at[p] = "free"
  BY <1>1, PidsAndThreads
<1>3. StackInv'
  BY <1>1, <1>2 DEF StackInv
<1>4. StacksExact'
  BY <1>2 DEF StacksExact
<1> QED
  BY <1>3, <1>4

LEMMA KillStep ==
  ASSUME Running, StackInv, StacksExact, Kill
  PROVE  Running' /\ StackInv' /\ StacksExact'
<1>1. PICK k \in Slots :
        /\ IsProcess(cpu, k)
        /\ status' = [status EXCEPT ![k] = "STOPPED"]
        /\ best' = [best EXCEPT ![cpu] = k]
  BY DEF Kill
<1>2. /\ ~halted /\ cpu \notin {NoPid, 0} /\ cpu \in PIDs /\ cpu \in Threads
      /\ at[cpu] = "body" /\ at' = [at EXCEPT ![cpu] = "free"]
      /\ UNCHANGED <<pid, wait_time, active_pid, next_pid, clock_on, halted>>
      /\ UNCHANGED <<stack, saved, allocated, own, cpu, index, boot, met>>
      /\ Live(k) /\ pid[k] = cpu /\ boot.at = "kernel_main"
  BY <1>1, PidsAndThreads
     DEF Kill, GoTo, IsProcess, Running, Typed, ExitTypeOK, BootTyped
<1>3. /\ at'[cpu] = "free" /\ \A t \in Threads : t # cpu => at'[t] = at[t]
      /\ best'[cpu] = k /\ \A t \in Threads : t # cpu => best'[t] = best[t]
      /\ \A i \in Slots : Live(i)' <=> Live(i) /\ i # k
  BY <1>1, <1>2 DEF Running, Typed, ExitTypeOK, TypeOK, Live
<1>4. \A i \in Slots : Live(i)' => pid[i] # cpu /\ pid[i] \in PIDs
  BY <1>2, <1>3 DEF Running, UniquePids, Typed, ExitTypeOK, TypeOK
<1>5. Typed'
  BY ExitKeepsTypes DEF Running
<1>6. UniquePids' /\ BackstopInv'
  <2>1. k # 0
    BY <1>2, SlotsFinite DEF Running, BackstopInv
  <2> QED
    BY <1>2, <1>3, <2>1, SlotsFinite DEF Running, UniquePids, BackstopInv
<1>7. ProcessInv'
  <2>1. ASSUME NEW i \in Slots, Live(i)'
        PROVE  /\ pid[i] <= next_pid /\ at'[pid[i]] = "body"
               /\ \/ saved[i] = pid[i]
                  \/ at'[saved[i]] = "load" /\ best'[saved[i]] = i
    <3>1. /\ pid[i] <= next_pid /\ at[pid[i]] = "body" /\ saved[i] \in Threads
          /\ \/ saved[i] = pid[i]
             \/ at[saved[i]] = "load" /\ best[saved[i]] = i
      BY <2>1, <1>3 DEF Running, ProcessInv, Typed, ExitTypeOK
    <3>2. at[saved[i]] = "load" => saved[i] # cpu
      BY <1>2
    <3> QED
      BY <3>1, <3>2, <1>3, <1>4, <2>1, PidsAndThreads
  <2>2. \A p \in PIDs : at'[p] # "body" => p <= next_pid
    <3>1. cpu <= next_pid
      BY <1>2 DEF Running, ProcessInv
    <3> QED
      BY <3>1, <1>3, PidsAndThreads DEF Running, ProcessInv
  <2>3. at'[NoPid] = "body"
    BY <1>2, <1>3, PidsAndThreads DEF Running, ProcessInv
  <2> QED
    BY <2>1, <2>2, <2>3, <1>2 DEF ProcessInv
<1>8. CpuInv'
  BY <1>2, <1>3 DEF Running, CpuInv
<1>9. StackInv'
  <2>1. met = {} => \A p \in PIDs : at'[p] = "free" => p = cpu
    BY <1>3, PidsAndThreads DEF StackInv
  <2>2. met = {} => stack[k] = own[cpu]
    BY <1>2 DEF StackInv
  <2> QED
    BY <2>1, <2>2, <1>2, <1>3 DEF StackInv
<1>10. StacksExact'
  <2> SUFFICES ASSUME met = {}
               PROVE  allocated = {stack[i] : i \in {j \in Slots : Live(j)'}}
                        \cup {own[p] : p \in {q \in PIDs : at'[q] = "free"}}
    BY <1>2 DEF StacksExact
  <2>1. \A p \in PIDs : at'[p] = "free" <=> p = cpu
    BY <1>3, PidsAndThreads DEF StackInv
  <2>2. {own[p] : p \in {q \in PIDs : at'[q] = "free"}} = {own[cpu]}
    BY <2>1, <1>2
  <2>3. {own[p] : p \in {q \in PIDs : at[q] = "free"}} = {}
    BY <1>2 DEF StackInv
  <2>4. stack[k] = own[cpu]
    BY <1>2 DEF StackInv
  <2>5. {stack[i] : i \in {j \in Slots : Live(j)}}
          = {stack[i] : i \in {j \in Slots : Live(j)'}} \cup {stack[k]}
    BY <1>2, <1>3
  <2>6. allocated = {stack[i] : i \in {j \in Slots : Live(j)}}
    BY <2>3, <1>2 DEF StacksExact
  <2> QED
    BY <2>2, <2>4, <2>5, <2>6
<1> QED
  BY <1>2, <1>5, <1>6, <1>7, <1>8, <1>9, <1>10 DEF Running

LEMMA FreeStackStep ==
  ASSUME Running, StackInv, StacksExact, FreeStack
  PROVE  Running' /\ StackInv' /\ StacksExact'
<1>1. PICK b \in Slots : IsProcess(0, b) /\ best' = [best EXCEPT ![cpu] = b]
  BY DEF FreeStack
<1>2. /\ ~halted /\ at[cpu] = "free" /\ at' = [at EXCEPT ![cpu] = "scan"]
      /\ UNCHANGED <<pid, status, wait_time, active_pid, next_pid, clock_on, halted>>
      /\ UNCHANGED <<stack, saved, own, cpu, boot, met>>
      /\ allocated' = allocated \ {stack[best[cpu]]}
  BY DEF FreeStack, GoTo, vars, StackToFree
<1>3. /\ cpu \in PIDs /\ cpu \in Threads /\ boot.at = "kernel_main"
      /\ \A i \in Slots : Live(i) => pid[i] # cpu
  BY <1>2, ExitingIsDead, PidsAndThreads DEF Exiting, ExitPoints
<1>4. /\ best'[cpu] = b /\ \A t \in Threads : t # cpu => best'[t] = best[t]
      /\ at'[cpu] = "scan" /\ \A t \in Threads : t # cpu => at'[t] = at[t]
      /\ \A i \in Slots : Live(i)' <=> Live(i)
  BY <1>1, <1>2, <1>3 DEF Running, Typed, ExitTypeOK, Live
<1>5. Typed'
  BY ExitKeepsTypes DEF Running
<1>6. UniquePids' /\ BackstopInv' /\ ProcessInv'
  <2>1. wait_time'[0] = 0
    BY <1>2 DEF Running, BackstopInv
  <2> QED
    BY <2>1, <1>2, <1>4, LocalStep DEF ExitPoints
<1>7. CpuInv'
  BY <1>1, <1>2, <1>4 DEF Running, CpuInv, IsProcess
<1>8. met = {} => \A p \in PIDs : at'[p] # "free"
  BY <1>4, PidsAndThreads DEF StackInv
<1>9. StackInv'
  BY <1>2, <1>4, <1>8 DEF StackInv
<1>10. StacksExact'
  <2> SUFFICES ASSUME met = {}
               PROVE  allocated' = {stack[i] : i \in {j \in Slots : Live(j)'}}
    BY <1>2, <1>3, <1>8 DEF StacksExact
  <2>1. {own[p] : p \in {q \in PIDs : at[q] = "free"}} = {own[cpu]}
    BY <1>2, <1>3 DEF StackInv
  <2>2. allocated = {stack[i] : i \in {j \in Slots : Live(j)}} \cup {own[cpu]}
    BY <2>1, <1>2, <1>3 DEF StacksExact
  <2>3. stack[best[cpu]] = own[cpu] /\ \A i \in Slots : Live(i) => stack[i] # own[cpu]
    BY <1>2, <1>3, PidsAndThreads DEF StackInv
  <2> QED
    BY <2>2, <2>3, <1>2, <1>4
<1> QED
  BY <1>2, <1>5, <1>6, <1>7, <1>9, <1>10 DEF Running

LEMMA ScanStep ==
  ASSUME Running, StackInv, StacksExact, Scan
  PROVE  Running' /\ StackInv' /\ StacksExact'
<1>1. /\ ~halted /\ at[cpu] = "scan" /\ index \in Slots
      /\ UNCHANGED <<pid, status, active_pid, next_pid, clock_on, halted>>
      /\ UNCHANGED <<stack, saved, allocated, own, cpu, at, boot, met>>
  BY ProcessAssumption DEF Scan, Running, Typed, ExitTypeOK, contextVars, Slots
<1>2. /\ at' = [at EXCEPT ![cpu] = "scan"] /\ cpu \in Threads
      /\ \A i \in Slots : Live(i)' <=> Live(i)
  BY <1>1 DEF Running, Typed, ExitTypeOK, Live
<1>3. /\ \A t \in Threads : t # cpu => best'[t] = best[t]
      /\ best'[cpu] = best[cpu] \/ (best'[cpu] = index /\ Live(index))
  BY <1>1, <1>2 DEF Scan, Running, Typed, ExitTypeOK, Runnable, Live
<1>4. wait_time'[0] = 0
  <2>1. wait_time[0] = 0 /\ ~Runnable(status, 0)
    BY DEF Running, BackstopInv, Runnable
  <2> QED
    BY <2>1, <1>1, SlotsFinite DEF Scan, Running, Typed, ExitTypeOK, TypeOK
<1>5. UniquePids' /\ BackstopInv' /\ ProcessInv'
  BY <1>1, <1>2, <1>3, <1>4, LocalStep DEF ExitPoints
<1>6. CpuInv'
  BY <1>1, <1>3 DEF Running, CpuInv, Live
<1>7. Typed'
  BY ExitKeepsTypes DEF Running
<1>8. StackInv' /\ StacksExact'
  BY <1>1, <1>2, LocalStepStacks DEF ExitPoints
<1> QED
  BY <1>1, <1>5, <1>6, <1>7, <1>8 DEF Running

LEMMA PickStep ==
  ASSUME Running, StackInv, StacksExact, Pick
  PROVE  Running' /\ StackInv' /\ StacksExact'
<1>1. /\ ~halted /\ at[cpu] = "scan" /\ at' = [at EXCEPT ![cpu] = "switch"]
      /\ wait_time' = [wait_time EXCEPT ![best[cpu]] = 0]
      /\ halted' = (pid[best[cpu]] = active_pid)
      /\ UNCHANGED <<pid, status, active_pid, next_pid, clock_on>>
      /\ UNCHANGED <<stack, saved, allocated, own, cpu, best, boot, met>>
  BY DEF Pick, GoTo
<1>2. \A i \in Slots : Live(i)' <=> Live(i)
  BY <1>1 DEF Live
<1>3. wait_time'[0] = 0
  BY <1>1, SlotsFinite DEF Running, BackstopInv, Typed, ExitTypeOK, TypeOK
<1>4. UniquePids' /\ BackstopInv' /\ ProcessInv' /\ at'[cpu] = "switch"
  BY <1>1, <1>2, <1>3, LocalStep DEF ExitPoints
<1>5. CpuInv'
  <2>1. Live(best[cpu]) /\ best[cpu] \in Slots /\ cpu = active_pid
    BY <1>1, PidsAndThreads DEF Running, CpuInv, Typed, ExitTypeOK
  <2>2. ~halted'
    BY <2>1, <1>1, ExitingIsDead DEF Exiting, ExitPoints
  <2> QED
    BY <2>1, <2>2, <1>1, <1>2, <1>4 DEF CpuInv
<1>6. Typed'
  BY ExitKeepsTypes DEF Running
<1>7. StackInv' /\ StacksExact'
  BY <1>1, <1>2, LocalStepStacks DEF ExitPoints
<1> QED
  BY <1>1, <1>4, <1>5, <1>6, <1>7 DEF Running

LEMMA SwitchStep ==
  ASSUME Running, StackInv, StacksExact, Switch
  PROVE  Running' /\ StackInv' /\ StacksExact'
<1>1. /\ ~halted /\ at[cpu] = "switch" /\ at' = [at EXCEPT ![cpu] = "publish"]
      /\ UNCHANGED <<pid, wait_time, active_pid, next_pid, clock_on, halted>>
      /\ UNCHANGED <<stack, saved, allocated, own, cpu, best, boot, met>>
  BY DEF Switch, GoTo, locals
<1>2. Live(best[cpu])
  BY <1>1 DEF Running, CpuInv
<1>3. \A i \in Slots : Live(i)' <=> Live(i)
  BY <1>2 DEF Switch, Live
<1>4. UniquePids' /\ BackstopInv' /\ ProcessInv' /\ at'[cpu] = "publish"
  <2>1. wait_time'[0] = 0
    BY <1>1 DEF Running, BackstopInv
  <2> QED
    BY <2>1, <1>1, <1>3, LocalStep DEF ExitPoints
<1>5. CpuInv'
  <2>1. best[cpu] \in Slots
    BY DEF Running, Typed, ExitTypeOK
  <2> QED
    BY <2>1, <1>1, <1>2, <1>3, <1>4 DEF Running, CpuInv
<1>6. Typed'
  BY ExitKeepsTypes DEF Running
<1>7. StackInv' /\ StacksExact'
  BY <1>1, <1>3, LocalStepStacks DEF ExitPoints
<1> QED
  BY <1>1, <1>4, <1>5, <1>6, <1>7 DEF Running

LEMMA PublishStep ==
  ASSUME Running, StackInv, StacksExact, Publish
  PROVE  Running' /\ StackInv' /\ StacksExact'
<1>1. /\ ~halted /\ at[cpu] = "publish" /\ at' = [at EXCEPT ![cpu] = "load"]
      /\ active_pid' = pid[best[cpu]]
      /\ UNCHANGED <<pid, status, wait_time, next_pid, clock_on, halted>>
      /\ UNCHANGED <<stack, saved, allocated, own, cpu, best, boot, met>>
  BY DEF Publish, GoTo, locals
<1>2. Live(best[cpu])
  BY <1>1 DEF Running, CpuInv
<1>3. \A i \in Slots : Live(i)' <=> Live(i)
  BY <1>1 DEF Live
<1>4. UniquePids' /\ BackstopInv' /\ ProcessInv' /\ at'[cpu] = "load"
  <2>1. wait_time'[0] = 0
    BY <1>1 DEF Running, BackstopInv
  <2> QED
    BY <2>1, <1>1, <1>3, LocalStep DEF ExitPoints
<1>5. CpuInv'
  <2>1. best[cpu] \in Slots
    BY DEF Running, Typed, ExitTypeOK
  <2> QED
    BY <2>1, <1>1, <1>2, <1>3, <1>4 DEF Running, CpuInv
<1>6. Typed'
  BY ExitKeepsTypes DEF Running
<1>7. StackInv' /\ StacksExact'
  BY <1>1, <1>3, LocalStepStacks DEF ExitPoints
<1> QED
  BY <1>1, <1>4, <1>5, <1>6, <1>7 DEF Running

LEMMA LoadStep ==
  ASSUME Running, StackInv, StacksExact, Load
  PROVE  Running' /\ StackInv' /\ StacksExact'
<1> DEFINE b == best[cpu]
<1>1. /\ ~halted /\ at[cpu] = "load" /\ cpu' = saved[b]
      /\ best' = IF cpu' = cpu THEN best ELSE [best EXCEPT ![cpu] = 0]
      /\ UNCHANGED <<pid, status, wait_time, active_pid, next_pid, clock_on, halted>>
      /\ UNCHANGED <<stack, saved, allocated, own, at, boot, met>>
  BY DEF Load, vars
<1>2. b \in Slots /\ Live(b) /\ pid[b] = active_pid /\ pid[b] \in PIDs /\ cpu \in Threads
  BY <1>1 DEF Running, CpuInv, Typed, ExitTypeOK, TypeOK
<1>3. \A i \in Slots : Live(i)' <=> Live(i)
  BY <1>1 DEF Live
<1>4. \A t \in Threads : t # cpu => best'[t] = best[t]
  BY <1>1 DEF Running, Typed, ExitTypeOK
<1>5. Typed'
  BY ExitKeepsTypes DEF Running
<1>6. UniquePids' /\ BackstopInv'
  BY <1>1, <1>3, SlotsFinite DEF Running, UniquePids, BackstopInv
<1>7. ProcessInv'
  <2>1. ASSUME NEW i \in Slots, Live(i)
        PROVE  saved[i] = pid[i] \/ (at[saved[i]] = "load" /\ best'[saved[i]] = i)
    <3>1. /\ saved[i] \in Threads
          /\ saved[i] = pid[i] \/ (at[saved[i]] = "load" /\ best[saved[i]] = i)
      BY <2>1 DEF Running, ProcessInv, Typed, ExitTypeOK
    <3>2. CASE saved[i] = cpu
      <4>1. saved[i] = pid[i] \/ b = i
        BY <3>1, <3>2
      <4> QED
        BY <4>1, <3>1, <3>2, <1>1
    <3>3. CASE saved[i] # cpu
      BY <3>1, <3>3, <1>4
    <3> QED
      BY <3>2, <3>3
  <2> QED
    BY <2>1, <1>1, <1>3 DEF Running, ProcessInv
<1>8. CpuInv'
  <2>1. saved[b] = pid[b] \/ (at[saved[b]] = "load" /\ best[saved[b]] = b)
    BY <1>2 DEF Running, ProcessInv
  <2>2. CASE saved[b] = pid[b]
    <3>1. cpu' = active_pid /\ at[cpu'] = "body"
      BY <2>2, <1>1, <1>2 DEF Running, ProcessInv
    <3> QED
      BY <3>1, <1>1, <1>2, <1>3 DEF Running, CpuInv
  <2>3. CASE at[saved[b]] = "load" /\ best[saved[b]] = b
    <3>1. at[cpu'] = "load" /\ best'[cpu'] = b
      <4>1. cpu' \in Threads
        BY <1>5 DEF Typed, ExitTypeOK
      <4> QED
        BY <4>1, <2>3, <1>1, <1>4
    <3> QED
      BY <3>1, <1>1, <1>2, <1>3 DEF Running, CpuInv
  <2> QED
    BY <2>1, <2>2, <2>3
<1>9. StackInv'
  <2> SUFFICES ASSUME met = {}
               PROVE  /\ \A i \in Slots : Live(i) /\ pid[i] # cpu' => stack[i] # own[cpu']
                      /\ \A p \in PIDs : at[p] # "free"
                      /\ at[cpu'] # "free"
    BY <1>1, <1>3 DEF StackInv
  <2>1. cpu' = pid[b] /\ own[cpu'] = stack[b] /\ at[cpu'] = "body"
    BY <1>1, <1>2 DEF StackInv, Running, ProcessInv
  <2>2. \A p \in PIDs : at[p] # "free"
    BY <1>1 DEF StackInv
  <2> QED
    BY <2>1, <2>2, <1>2 DEF StackInv
<1>10. StacksExact'
  BY <1>1, <1>3 DEF StacksExact
<1> QED
  BY <1>1, <1>5, <1>6, <1>7, <1>8, <1>9, <1>10 DEF Running

LEMMA ClockStep ==
  ASSUME Running, StackInv, StacksExact, Clock
  PROVE  Running' /\ StackInv' /\ StacksExact'
<1>1. /\ ~halted /\ SwitchFromQueue(status)
      /\ UNCHANGED <<pid, next_pid, clock_on, halted>>
      /\ UNCHANGED <<stack, allocated, own, at, best, boot>>
      /\ met' = met \cup (IF Exiting THEN {"exit"} ELSE {})
      /\ next_pid # NoPid
  BY DEF Clock, Tick, Interrupt, Running, BackstopInv
<1>2. PICK c \in Slots :
        /\ active_pid' = pid[c] /\ status[c] # "STOPPED"
        /\ wait_time'[c] = 0
        /\ \A i \in Slots \ {c} :
             wait_time'[i] = wait_time[i] + (IF Runnable(status, i) THEN 1 ELSE 0)
        /\ \A i \in Slots : status'[i] = "STOPPED" <=> status[i] = "STOPPED"
  <2>1. /\ TypeOK /\ BackstopInv /\ status \in [Slots -> Statuses]
        /\ \A i \in Slots : status[i] # "STOPPED" => Live(i)
    BY DEF Running, Typed, ExitTypeOK, TypeOK, Live
  <2> QED
    BY <2>1, <1>1, Decision
<1>3. Live(c) /\ \A i \in Slots : Live(i)' <=> Live(i)
  BY <1>2 DEF Live
<1>4. \/ active_pid' = active_pid /\ UNCHANGED <<cpu, saved>>
      \/ /\ active_pid' # active_pid /\ cpu' = saved[c]
         /\ \A i \in Slots : IF IsProcess(active_pid, i) THEN saved'[i] = cpu
                             ELSE saved'[i] = saved[i]
  <2>1. \A i \in Slots : IsProcess(active_pid', i) => i = c
    BY <1>2, <1>3 DEF IsProcess, Running, UniquePids
  <2> QED
    BY <2>1 DEF Clock, SaveContext
<1>5. Typed'
  BY InterruptsKeepTypes DEF Running
<1>6. UniquePids' /\ BackstopInv'
  <2>1. Live(0) /\ pid[0] = 0 /\ wait_time[0] = 0 /\ ~Runnable(status, 0)
    BY <1>1 DEF Running, BackstopInv, Runnable
  <2>2. wait_time'[0] = 0
    BY <2>1, <1>2, SlotsFinite
  <2> QED
    BY <2>1, <2>2, <1>1, <1>3, SlotsFinite DEF Running, UniquePids, BackstopInv
<1>7. \A i \in Slots : IsProcess(active_pid, i) =>
        \/ at[cpu] = "body" /\ cpu = pid[i]
        \/ at[cpu] = "load" /\ best[cpu] = i
  <2> SUFFICES ASSUME NEW i \in Slots, IsProcess(active_pid, i)
               PROVE  \/ at[cpu] = "body" /\ cpu = pid[i]
                      \/ at[cpu] = "load" /\ best[cpu] = i
    OBVIOUS
  <2>1. Live(i) /\ pid[i] = active_pid /\ at[pid[i]] = "body"
    BY DEF IsProcess, Running, ProcessInv
  <2>2. CASE at[cpu] = "load"
    BY <2>1, <2>2 DEF Running, CpuInv, UniquePids, Typed, ExitTypeOK
  <2>3. CASE at[cpu] # "load"
    BY <2>1, <2>3 DEF Running, CpuInv
  <2> QED
    BY <2>2, <2>3
<1>8. ProcessInv'
  <2>1. ASSUME NEW i \in Slots, Live(i)
        PROVE  saved'[i] = pid[i] \/ (at[saved'[i]] = "load" /\ best[saved'[i]] = i)
    <3>1. saved[i] = pid[i] \/ (at[saved[i]] = "load" /\ best[saved[i]] = i)
      BY <2>1 DEF Running, ProcessInv
    <3>2. CASE saved'[i] = saved[i]
      BY <3>1, <3>2
    <3>3. CASE IsProcess(active_pid, i) /\ saved'[i] = cpu
      BY <3>3, <1>7
    <3> QED
      BY <3>2, <3>3, <1>4
  <2> QED
    BY <2>1, <1>1, <1>3 DEF Running, ProcessInv
<1>9. CpuInv'
  <2>1. CASE active_pid' = active_pid /\ UNCHANGED <<cpu, saved>>
    <3>1. best[cpu] \in Slots
      BY DEF Running, Typed, ExitTypeOK
    <3> QED
      BY <2>1, <3>1, <1>1, <1>3 DEF Running, CpuInv
  <2>2. CASE active_pid' # active_pid /\ cpu' = saved[c]
    <3>1. /\ at[pid[c]] = "body"
          /\ saved[c] = pid[c] \/ (at[saved[c]] = "load" /\ best[saved[c]] = c)
      BY <1>3 DEF Running, ProcessInv
    <3> QED
      BY <2>2, <3>1, <1>1, <1>2, <1>3 DEF CpuInv
  <2> QED
    BY <2>1, <2>2, <1>4
<1>10. StackInv'
  <2> SUFFICES ASSUME met' = {}
               PROVE  StackInv'
    BY DEF StackInv
  <2>1. met = {} /\ ~Exiting
    BY <1>1
  <2>2. at[cpu] = "body" /\ \A p \in PIDs : at[p] # "free"
    BY <2>1 DEF StackInv, Running, Typed, ExitTypeOK, Exiting, ExitPoints
  <2>3. \A i \in Slots : Live(i) => saved'[i] = pid[i] /\ saved[i] = pid[i]
    BY <2>1, <2>2, <1>4, <1>7 DEF StackInv
  <2>4. /\ \A i, j \in Slots : Live(i) /\ Live(j) /\ stack[i] = stack[j] => i = j
        /\ \A i \in Slots : Live(i) => stack[i] = own[pid[i]]
        /\ boot.at = "kernel_main"
    BY <2>1 DEF StackInv, Running, Typed, BootTyped
  <2>5. at[cpu'] = "body" /\ (cpu' = cpu \/ cpu' = pid[c])
    BY <2>2, <2>3, <1>3, <1>4 DEF Running, ProcessInv
  <2>6. cpu' # NoPid => \A i \in Slots : Live(i) /\ pid[i] # cpu' => stack[i] # own[cpu']
    BY <2>1, <2>4, <2>5, <1>3 DEF StackInv
  <2> QED
    BY <2>2, <2>3, <2>4, <2>5, <2>6, <1>1, <1>3 DEF StackInv
<1>11. StacksExact'
  BY <1>1, <1>3 DEF StacksExact
<1> QED
  BY <1>1, <1>5, <1>6, <1>8, <1>9, <1>10, <1>11 DEF Running

LEMMA KeyboardStep ==
  ASSUME Running, StackInv, StacksExact, Keyboard
  PROVE  Running' /\ StackInv' /\ StacksExact'
<1>1. /\ ~halted /\ next_pid < MaxPid /\ next_pid # NoPid
      /\ UNCHANGED <<clock_on, active_pid, cpu, index, best, before, boot>>
      /\ met' = met \cup (IF Exiting THEN {"exit"} ELSE {})
      /\ boot.at = "kernel_main" /\ cpu \in Threads
  BY DEF Keyboard, InitProcess, InitProcessFull, Interrupt, locals, Running,
         BackstopInv, Typed, BootTyped, ExitTypeOK
<1>2. PICK p \in PIDs : IsNextPid(p) /\ next_pid' = p
  BY DEF Keyboard, InitProcess, InitProcessFull
<1>3. PICK s \in FreeStacks :
        /\ allocated' = allocated \cup {s}
        /\ IF halted' THEN UNCHANGED <<stack, saved, own, at>>
           ELSE \E i \in Slots :
                  /\ IsFreeSlot(i)
                  /\ stack' = [stack EXCEPT ![i] = s]
                  /\ saved' = [saved EXCEPT ![i] = p]
                  /\ own' = [own EXCEPT ![p] = s]
                  /\ at' = [at EXCEPT ![p] = "body"]
  BY <1>2 DEF Keyboard
<1>4. p = next_pid + 1 /\ next_pid \in Nat
  <2>1. \A i \in Slots : Live(i) => pid[i] <= next_pid
    BY DEF Running, ProcessInv
  <2>2. next_pid \in PIDs
    BY <1>1 DEF Running, Typed, ExitTypeOK, TypeOK
  <2> QED
    BY <1>1, <1>2, <2>1, <2>2, NextPidIsSuccessor, PidsAndThreads
       DEF Running, Typed, ExitTypeOK
<1>5. Typed'
  BY InterruptsKeepTypes DEF Running
<1>6. \A i \in Slots : Live(i) => /\ pid[i] \in PIDs /\ pid[i] <= next_pid
                                  /\ pid[i] # p /\ pid[i] < p
  <2>1. \A i \in Slots : pid[i] \in PIDs /\ pid[i] \in Nat
    BY PidsAndThreads DEF Running, Typed, ExitTypeOK, TypeOK
  <2>2. \A i \in Slots : Live(i) => pid[i] <= next_pid
    BY DEF Running, ProcessInv
  <2> QED
    BY <2>1, <2>2, <1>4
<1>7. \A q \in PIDs : at[q] # "body" => q # p /\ q <= p
  BY <1>4, PidsAndThreads DEF Running, ProcessInv
<1>8. CASE InitProcessFull
  <2>1. /\ halted' /\ UNCHANGED <<pid, status, wait_time, stack, saved, own, at>>
        /\ \A i \in Slots : Live(i)
    BY <1>8, <1>3 DEF InitProcessFull
  <2>2. \A i \in Slots : Live(i)' <=> Live(i)
    BY <2>1 DEF Live
  <2>3. UniquePids' /\ BackstopInv'
    BY <1>1, <1>2, <2>1, <2>2, SlotsFinite, PidsAndThreads
       DEF Running, UniquePids, BackstopInv
  <2>4. ProcessInv'
    BY <1>1, <1>2, <1>6, <1>7, <2>1, <2>2, PidsAndThreads DEF Running, ProcessInv
  <2>5. CpuInv'
    BY <1>1, <2>1 DEF Running, CpuInv, Live
  <2>6. StackInv' /\ StacksExact'
    BY <1>1, <2>1, <2>2 DEF StackInv, StacksExact
  <2> QED
    BY <1>1, <1>5, <2>3, <2>4, <2>5, <2>6 DEF Running
<1>9. CASE InitProcess
  <2>1. PICK n \in Slots :
          /\ IsFreeSlot(n)
          /\ pid' = [pid EXCEPT ![n] = p]
          /\ status' = [status EXCEPT ![n] = "SPAWNED"]
          /\ wait_time' = [wait_time EXCEPT ![n] = 0]
          /\ UNCHANGED halted
    BY <1>9, <1>2 DEF InitProcess
  <2>2. \A i \in Slots : IsFreeSlot(i) => i = n
    BY <2>1 DEF IsFreeSlot, Slots
  <2>3. /\ stack' = [stack EXCEPT ![n] = s]
        /\ saved' = [saved EXCEPT ![n] = p]
        /\ own' = [own EXCEPT ![p] = s]
        /\ at' = [at EXCEPT ![p] = "body"]
    BY <1>1, <1>3, <2>1, <2>2
  <2>4. /\ pid'[n] = p /\ Live(n)' /\ ~Live(n) /\ wait_time'[n] = 0
        /\ stack'[n] = s /\ saved'[n] = p
        /\ \A i \in Slots \ {n} :
             /\ Live(i)' <=> Live(i)
             /\ pid'[i] = pid[i] /\ wait_time'[i] = wait_time[i]
             /\ stack'[i] = stack[i] /\ saved'[i] = saved[i]
    BY <2>1, <2>3 DEF Running, Typed, ExitTypeOK, TypeOK, Live, IsFreeSlot
  <2>5. /\ own'[p] = s /\ \A q \in PIDs \ {p} : own'[q] = own[q]
        /\ \A t \in Threads : at'[t] = at[t]
        /\ at[p] = "body" /\ p \in Threads
    BY <2>3, <1>7, PidsAndThreads DEF Running, Typed, ExitTypeOK
  <2>6. p # 0 /\ n # 0
    BY <1>1, <1>4, <2>4, PidsAndThreads DEF Running, BackstopInv
  <2>7. UniquePids'
    BY <1>6, <2>4 DEF Running, UniquePids
  <2>8. BackstopInv'
    BY <1>1, <1>2, <2>4, <2>6, SlotsFinite, PidsAndThreads DEF Running, BackstopInv
  <2>9. ProcessInv'
    <3>1. ASSUME NEW i \in Slots, Live(i)'
          PROVE  /\ pid'[i] <= p /\ at'[pid'[i]] = "body"
                 /\ \/ saved'[i] = pid'[i]
                    \/ at'[saved'[i]] = "load" /\ best[saved'[i]] = i
      <4>1. CASE i = n
        BY <4>1, <2>4, <2>5, PidsAndThreads
      <4>2. CASE i # n
        <5>1. /\ at[pid[i]] = "body" /\ saved[i] \in Threads /\ pid[i] \in Threads
              /\ \/ saved[i] = pid[i]
                 \/ at[saved[i]] = "load" /\ best[saved[i]] = i
          BY <3>1, <4>2, <2>4, <1>6, PidsAndThreads
             DEF Running, ProcessInv, Typed, ExitTypeOK
        <5> QED
          BY <5>1, <3>1, <4>2, <2>4, <2>5, <1>6, PidsAndThreads
      <4> QED
        BY <4>1, <4>2
    <3> QED
      BY <3>1, <1>1, <1>2, <1>7, <2>5, PidsAndThreads DEF Running, ProcessInv
  <2>10. CpuInv'
    <3>1. ASSUME NEW i \in Slots, Live(i)
          PROVE  Live(i)' /\ pid'[i] = pid[i]
      BY <3>1, <2>4
    <3>2. best[cpu] \in Slots /\ at'[cpu] = at[cpu]
      BY <1>1, <2>5 DEF Running, Typed, ExitTypeOK
    <3> QED
      BY <3>1, <3>2, <1>1, <2>1 DEF Running, CpuInv
  <2>11. ASSUME met' = {}
         PROVE  StackInv' /\ StacksExact'
    <3>1. met = {} /\ ~Exiting
      BY <2>11, <1>1
    <3>2. at[cpu] = "body" /\ \A q \in PIDs : at[q] # "free"
      BY <3>1, <1>1 DEF StackInv, Running, Typed, ExitTypeOK, Exiting, ExitPoints
    <3>3. s \notin allocated /\ allocated = {stack[i] : i \in {j \in Slots : Live(j)}}
      BY <3>1, <3>2, <1>1 DEF FreeStacks, StacksExact
    <3>4. \A i \in Slots : Live(i) => stack[i] # s
      BY <3>3
    <3>5. cpu # NoPid => cpu # p /\ own'[cpu] = own[cpu] /\ own[cpu] # s
      <4> SUFFICES ASSUME cpu # NoPid
                   PROVE  cpu # p /\ own'[cpu] = own[cpu] /\ own[cpu] # s
        OBVIOUS
      <4>1. PICK i \in Slots : Live(i) /\ pid[i] = cpu
        BY <3>2 DEF Running, CpuInv
      <4>2. own[cpu] = stack[i]
        BY <4>1, <3>1 DEF StackInv
      <4> QED
        BY <4>1, <4>2, <3>4, <2>5, <1>6
    <3>6. \A i \in Slots : Live(i)' => saved'[i] = pid'[i] /\ stack'[i] = own'[pid'[i]]
      BY <3>1, <2>4, <2>5, <1>6 DEF StackInv
    <3>7. \A i, j \in Slots : Live(i)' /\ Live(j)' /\ stack'[i] = stack'[j] => i = j
      BY <3>1, <3>4, <2>4 DEF StackInv
    <3>8. cpu # NoPid => \A i \in Slots : Live(i)' /\ pid'[i] # cpu => stack'[i] # own'[cpu]
      BY <3>1, <3>5, <2>4 DEF StackInv
    <3>9. at'[cpu] = "body" /\ \A q \in PIDs : at'[q] # "free"
      BY <3>2, <2>5, <1>1, PidsAndThreads
    <3>10. StackInv'
      BY <3>6, <3>7, <3>8, <3>9, <1>1 DEF StackInv
    <3>11. {stack'[i] : i \in {j \in Slots : Live(j)'}}
              = {stack[i] : i \in {j \in Slots : Live(j)}} \cup {s}
      BY <2>4
    <3>12. StacksExact'
      BY <3>3, <3>9, <3>11, <1>1, <1>3 DEF StacksExact
    <3> QED
      BY <3>10, <3>12
  <2>12. StackInv' /\ StacksExact'
    BY <2>11 DEF StackInv, StacksExact
  <2> QED
    BY <1>1, <1>5, <2>7, <2>8, <2>9, <2>10, <2>12 DEF Running
<1> QED
  BY <1>8, <1>9 DEF Keyboard

-----------------------------------------------------------------------------
LEMMA ExitNextIInv == ExitIInv /\ [ExitNext]_allVars => ExitIInv'
<1> SUFFICES ASSUME ExitIInv, [ExitNext]_allVars PROVE ExitIInv'
  OBVIOUS
<1>1. CASE UNCHANGED allVars
  <2>1. Typed'
    BY <1>1 DEF allVars, vars, contextVars, locals, ExitIInv, Typed, ExitTypeOK,
                TypeOK, BootTyped
  <2>2. BootInv' /\ StackInv' /\ StacksExact'
    BY <1>1 DEF allVars, vars, contextVars, locals, ExitIInv, BootInv, StackInv,
                StacksExact, Live
  <2>3. RunInv'
    BY <1>1 DEF allVars, vars, contextVars, locals, ExitIInv, RunInv, UniquePids,
                BackstopInv, ProcessInv, CpuInv, Live
  <2> QED
    BY <2>1, <2>2, <2>3 DEF ExitIInv
<1>2. CASE ExitNext
  <2>1. Typed'
    BY <1>2, BootKeepsTypes, InterruptsKeepTypes, ExitKeepsTypes DEF ExitNext, ExitIInv
  <2>2. met \subseteq met' /\ (clock_on => clock_on')
    <3>1. CASE BootNumber \/ BootReserve \/ BootFill \/ BootPublish
      <4>1. met' = met /\ clock_on' = clock_on
        BY <3>1 DEF BootNumber, BootReserve, BootFill, BootPublish, vars
      <4> QED
        BY <4>1
    <3>2. CASE BootClock
      BY <3>2 DEF BootClock
    <3>3. CASE Keyboard
      BY <3>3 DEF Keyboard, Interrupt, InitProcess, InitProcessFull
    <3>4. CASE Clock
      BY <3>4 DEF Clock, Tick, Interrupt
    <3>5. CASE Kill \/ FreeStack \/ Scan \/ Pick \/ Switch \/ Publish \/ Load
      BY <3>5 DEF Kill, FreeStack, Scan, Pick, Switch, Publish, Load, vars
    <3> QED
      BY <1>2, <3>1, <3>2, <3>3, <3>4, <3>5 DEF ExitNext
  <2>3. CASE "boot" \in met'
    BY <2>1, <2>3 DEF ExitIInv, BootInv, RunInv, StackInv, StacksExact
  <2>4. CASE "boot" \notin met' /\ ~clock_on
    <3>1. "boot" \notin met /\ cpu = NoPid /\ at[cpu] = "body"
      BY <2>2, <2>4, PidsAndThreads DEF ExitIInv, BootInv
    <3>2. ~Keyboard
      BY <2>4 DEF Keyboard, Interrupt
    <3>3. CASE BootNumber \/ BootReserve \/ BootFill \/ BootPublish
      <4>1. ~clock_on'
        BY <3>3, <2>4 DEF BootNumber, BootReserve, BootFill, BootPublish, vars
      <4> QED
        BY <2>1, <2>4, <3>1, <3>3, <4>1, BootStep DEF ExitIInv, RunInv
    <3>4. CASE BootClock
      <4>1. Running' /\ StackInv' /\ StacksExact'
        BY <2>4, <3>1, <3>4, BootClockStep
      <4> QED
        BY <4>1 DEF Running, ExitIInv, BootInv, RunInv
    <3>5. ~(Clock \/ Kill \/ FreeStack \/ Scan \/ Pick \/ Switch \/ Publish \/ Load)
      BY <2>4, <3>1 DEF Clock, Tick, Kill, FreeStack, Scan, Pick, Switch, Publish, Load
    <3> QED
      BY <1>2, <3>2, <3>3, <3>4, <3>5 DEF ExitNext
  <2>5. CASE "boot" \notin met' /\ clock_on
    <3>1. Running /\ StackInv /\ StacksExact
      BY <2>2, <2>5 DEF ExitIInv, RunInv, Running
    <3>2. ~(BootNumber \/ BootReserve \/ BootFill \/ BootPublish \/ BootClock)
      <4>1. boot.at = "kernel_main" /\ boot.made = BootProcesses
        BY <2>5 DEF ExitIInv, Typed, BootTyped
      <4>2. ~(boot.made < BootProcesses)
        BY <4>1, ProcessAssumption
      <4> QED
        BY <4>1, <4>2, <2>5
           DEF BootNumber, BootReserve, BootFill, BootPublish, BootClock
    <3>3. Running' /\ StackInv' /\ StacksExact'
      BY <1>2, <3>1, <3>2, KeyboardStep, ClockStep, KillStep, FreeStackStep, ScanStep,
         PickStep, SwitchStep, PublishStep, LoadStep DEF ExitNext
    <3> QED
      BY <3>3, <2>2, <2>5 DEF Running, ExitIInv, BootInv, RunInv
  <2> QED
    BY <2>3, <2>4, <2>5
<1> QED
  BY <1>1, <1>2

\* The inductive invariant holds in every reachable state.
THEOREM ExitInvariance == ExitSpec => []ExitIInv
<1> QED
  BY InitExitIInv, ExitNextIInv, PTL DEF ExitSpec

\* Every variable keeps its type, whatever interrupt arrives where.
THEOREM ExitTypeCorrect == ExitSpec => []ExitTypeOK
<1>1. ExitIInv => ExitTypeOK
  BY DEF ExitIInv, Typed
<1> QED
  BY <1>1, ExitInvariance, PTL

\* Unless a command arrives during the boot, the backstop stays in slot 0
\* whatever arrives while a process exits.
THEOREM ExitKeepsBackstop == ExitSpec => []BackstopKept
<1>1. ExitIInv => BackstopKept
  BY DEF ExitIInv, RunInv, BackstopInv, BackstopKept, BackstopAlive
<1> QED
  BY <1>1, ExitInvariance, PTL

\* Unless a command arrives during the boot, no scan settles on the process that
\* is exiting: only a full table halts.
THEOREM ExitHaltsOnlyWhenFull == ExitSpec => []HaltOnlyWhenFull
<1>1. ExitIInv => HaltOnlyWhenFull
  BY DEF ExitIInv, BootInv, RunInv, CpuInv, HaltOnlyWhenFull
<1> QED
  BY <1>1, ExitInvariance, PTL

\* Until an interrupt arrives on the exit path or during the boot, and once the
\* clock runs, every process that is not running has its own context in its slot.
THEOREM ContextsStayIntact == ExitSpec => []ContextIntact
<1>1. ExitIInv => ContextIntact
  BY DEF ExitIInv, StackInv, ContextIntact
<1> QED
  BY <1>1, ExitInvariance, PTL

\* Until an interrupt arrives on the exit path or during the boot, nobody runs
\* on a stack that belongs to another process.
THEOREM StacksAreExclusive == ExitSpec => []StackExclusive
<1>1. ExitIInv => StackExclusive
  BY DEF ExitIInv, StackInv, StackExclusive
<1> QED
  BY <1>1, ExitInvariance, PTL

\* Until an interrupt arrives on the exit path or during the boot, and as long as
\* the machine has not halted, every exit frees one stack, its own, and none is
\* lost.  With such an interrupt a stack may be freed that is in use.
THEOREM StacksAreExact == ExitSpec => []StacksExact
<1>1. ExitIInv => StacksExact
  BY DEF ExitIInv
<1> QED
  BY <1>1, ExitInvariance, PTL

-----------------------------------------------------------------------------
(* The refinement.                                                         *)

\* The statuses the scan reads, when slot k held the process that exits.
Stopped(k) == [before.status EXCEPT ![k] = "STOPPED"]

\* What the scan makes of the wait of slot i.
AgedBefore(i) == before.wait_time[i] + (IF Runnable(status, i) THEN 1 ELSE 0)

\* b is the slot that a scan of the slots below n settles on.
IsBest(b, n) ==
    \/ b = 0 /\ \A i \in Slots : i < n => ~Runnable(status, i)
    \/ /\ b < n /\ Runnable(status, b)
       /\ \A i \in Slots : i < n /\ Runnable(status, i) /\ i # b =>
            \/ AgedBefore(i) < AgedBefore(b)
            \/ AgedBefore(i) = AgedBefore(b) /\ b < i

\* How far the exit of the process of slot k has taken the table from the one
\* it found.
ExitState(k) ==
    /\ before \in [status : [Slots -> Statuses], wait_time : [Slots -> Nat],
                   active_pid : {cpu}]
    /\ before.wait_time[0] = 0
    /\ before.status[k] # "STOPPED" /\ pid[k] = cpu
    /\ \A j \in Slots : j < k => ~(before.status[j] # "STOPPED" /\ pid[j] = cpu)
    /\ \A i \in Slots : Live(i) <=> Stopped(k)[i] # "STOPPED"
    /\ at[cpu] \in {"free", "scan", "switch"} => status = Stopped(k)
    /\ at[cpu] \in {"publish", "load"} =>
         status = [Stopped(k) EXCEPT ![best[cpu]] = "ACTIVE"]
    /\ at[cpu] = "free" => wait_time = before.wait_time
    /\ at[cpu] = "scan" =>
         /\ \A i \in Slots : wait_time[i] = IF i < index THEN AgedBefore(i)
                                            ELSE before.wait_time[i]
         /\ IsBest(best[cpu], index)
    /\ at[cpu] \in {"switch", "publish", "load"} =>
         /\ \A i \in Slots : wait_time[i] = IF i = best[cpu] THEN 0 ELSE AgedBefore(i)
         /\ IsBest(best[cpu], MaxProcess)

BeforeInv == met = {} /\ Exiting => \E k \in Slots : ExitState(k)

\* Until an interrupt arrives on its path, a process exits with the clock on
\* and a table in order.
LEMMA ExitingRuns ==
  ASSUME ExitIInv, met = {}, Exiting
  PROVE  Running /\ StackInv /\ StacksExact
<1>1. clock_on
  BY DEF ExitIInv, BootInv, Exiting, ExitPoints, Typed, ExitTypeOK
<1> QED
  BY <1>1 DEF ExitIInv, RunInv, Running

\* One iteration of the scan keeps the best of the slots it has seen.
LEMMA ScanKeepsBest ==
  ASSUME Running, Scan, NEW k \in Slots, ExitState(k)
  PROVE  /\ \A i \in Slots : wait_time'[i] = IF i < index + 1 THEN AgedBefore(i)
                                             ELSE before.wait_time[i]
         /\ IsBest(best'[cpu], index + 1)
<1>1. /\ at[cpu] = "scan" /\ index \in Slots /\ cpu \in Threads
      /\ best \in [Threads -> Slots] /\ wait_time \in [Slots -> Nat]
      /\ \A i \in Slots : i < index + 1 <=> i < index \/ i = index
  <2>1. at[cpu] = "scan" /\ index \in Slots
    BY ProcessAssumption DEF Scan, Running, Typed, ExitTypeOK, Slots
  <2>2. \A i \in Slots : i < index + 1 <=> i < index \/ i = index
    BY <2>1 DEF Slots
  <2> QED
    BY <2>1, <2>2 DEF Running, Typed, ExitTypeOK, TypeOK
<1>2. /\ \A i \in Slots : wait_time[i] = IF i < index THEN AgedBefore(i)
                                         ELSE before.wait_time[i]
      /\ IsBest(best[cpu], index)
      /\ before.wait_time \in [Slots -> Nat] /\ before.wait_time[0] = 0
  BY <1>1 DEF ExitState
<1>3. \A i \in Slots : /\ AgedBefore(i) \in Nat
                       /\ Runnable(status, i) => AgedBefore(i) = before.wait_time[i] + 1
                       /\ ~Runnable(status, i) => AgedBefore(i) = before.wait_time[i]
  BY <1>2 DEF AgedBefore
<1>4. ~(index < index) /\ wait_time[index] = before.wait_time[index]
  BY <1>1, <1>2 DEF Slots
<1>5. CASE ~Runnable(status, index)
  <2>1. wait_time' = wait_time /\ best' = best
    BY <1>5 DEF Scan
  <2>2. \A i \in Slots : wait_time'[i] = IF i < index + 1 THEN AgedBefore(i)
                                         ELSE before.wait_time[i]
    BY <2>1, <1>1, <1>2, <1>3, <1>4, <1>5
  <2>3. IsBest(best[cpu], index + 1)
    <3>1. best[cpu] < index => best[cpu] < index + 1
      BY <1>1
    <3> QED
      BY <3>1, <1>1, <1>2, <1>5 DEF IsBest
  <2> QED
    BY <2>1, <2>2, <2>3
<1>6. CASE Runnable(status, index)
  <2>1. /\ wait_time' = [wait_time EXCEPT ![index] = @ + 1]
        /\ best' = IF wait_time'[index] > wait_time[best[cpu]]
                   THEN [best EXCEPT ![cpu] = index] ELSE best
    BY <1>6 DEF Scan, Beats
  <2>2. /\ wait_time'[index] = AgedBefore(index)
        /\ \A i \in Slots : i # index => wait_time'[i] = wait_time[i]
    BY <2>1, <1>1, <1>3, <1>4, <1>6
  <2>3. \A i \in Slots : wait_time'[i] = IF i < index + 1 THEN AgedBefore(i)
                                         ELSE before.wait_time[i]
    BY <2>2, <1>1, <1>2
  <2>4. best[cpu] \in Slots /\ best[cpu] < index => wait_time[best[cpu]] = AgedBefore(best[cpu])
    BY <1>2
  <2>5. best'[cpu] = IF AgedBefore(index) > wait_time[best[cpu]] THEN index ELSE best[cpu]
    BY <2>1, <2>2, <1>1
  <2>6. CASE best[cpu] = 0 /\ \A i \in Slots : i < index => ~Runnable(status, i)
    <3>1. ~Runnable(status, 0) /\ 0 \in Slots
      BY SlotsFinite DEF Running, BackstopInv, Runnable
    <3>2. wait_time[0] = 0
      BY <3>1, <1>2, <1>3
    <3>3. AgedBefore(index) > 0
      BY <1>2, <1>3, <1>1, <1>6
    <3>4. best'[cpu] = index
      BY <2>5, <2>6, <3>2, <3>3
    <3> QED
      BY <2>3, <2>6, <3>4, <1>1, <1>6 DEF IsBest, Slots
  <2>7. CASE /\ best[cpu] < index /\ Runnable(status, best[cpu])
             /\ \A i \in Slots : i < index /\ Runnable(status, i) /\ i # best[cpu] =>
                  \/ AgedBefore(i) < AgedBefore(best[cpu])
                  \/ AgedBefore(i) = AgedBefore(best[cpu]) /\ best[cpu] < i
    <3>1. best[cpu] \in Slots /\ wait_time[best[cpu]] = AgedBefore(best[cpu])
      BY <2>4, <2>7, <1>1
    <3>2. CASE AgedBefore(index) > AgedBefore(best[cpu])
      <4>1. best'[cpu] = index
        BY <3>1, <3>2, <2>5
      <4>2. \A i \in Slots : i < index + 1 /\ Runnable(status, i) /\ i # index =>
              AgedBefore(i) < AgedBefore(index)
        BY <3>1, <3>2, <2>7, <1>1, <1>3
      <4>3. index < index + 1
        BY <1>1 DEF Slots
      <4> QED
        BY <4>1, <4>2, <4>3, <2>3, <1>6 DEF IsBest
    <3>3. CASE ~(AgedBefore(index) > AgedBefore(best[cpu]))
      <4>1. best'[cpu] = best[cpu]
        BY <3>1, <3>3, <2>5
      <4>2. \/ AgedBefore(index) < AgedBefore(best[cpu])
            \/ AgedBefore(index) = AgedBefore(best[cpu])
        BY <3>1, <3>3, <1>1, <1>3
      <4>3. best[cpu] < index + 1
        BY <2>7, <3>1, <1>1 DEF Slots
      <4> QED
        BY <4>1, <4>2, <4>3, <2>3, <2>7, <1>1 DEF IsBest
    <3> QED
      BY <3>2, <3>3
  <2> QED
    BY <2>6, <2>7, <1>2 DEF IsBest
<1> QED
  BY <1>5, <1>6

LEMMA ExitStepBefore ==
  ASSUME ExitIInv, BeforeInv, met = {},
         Kill \/ FreeStack \/ Scan \/ Pick \/ Switch \/ Publish
  PROVE  BeforeInv'
<1>1. CASE Kill
  <2>1. /\ clock_on /\ cpu \notin {NoPid, 0} /\ cpu \in Threads /\ "boot" \notin met
        /\ at' = [at EXCEPT ![cpu] = "free"]
        /\ before' = [status |-> status, wait_time |-> wait_time, active_pid |-> active_pid]
        /\ UNCHANGED <<pid, wait_time, cpu, met>>
    BY <1>1 DEF Kill, GoTo, ExitIInv, Typed, ExitTypeOK
  <2>2. Running /\ at[cpu] = "body" /\ cpu = active_pid
    BY <1>1, <2>1 DEF Kill, ExitIInv, RunInv, Running, CpuInv
  <2>3. PICK k \in Slots : /\ IsProcess(cpu, k)
                           /\ status' = [status EXCEPT ![k] = "STOPPED"]
    BY <1>1 DEF Kill
  <2>4. /\ at'[cpu] = "free" /\ before'.status = status /\ before'.wait_time = wait_time
        /\ before'.active_pid = cpu
    BY <2>1, <2>2 DEF Running, Typed, ExitTypeOK
  <2>5. status' = Stopped(k)'
    BY <2>3, <2>4 DEF Stopped
  <2>6. before' \in [status : [Slots -> Statuses], wait_time : [Slots -> Nat],
                     active_pid : {cpu}]
    BY <2>1, <2>2 DEF Running, Typed, ExitTypeOK, TypeOK
  <2>7. wait_time[0] = 0
    BY <2>2 DEF Running, BackstopInv
  <2>8. ExitState(k)'
    BY <2>1, <2>3, <2>4, <2>5, <2>6, <2>7 DEF ExitState, IsProcess, Live
  <2> QED
    BY <2>8 DEF BeforeInv
<1>2. CASE FreeStack \/ Scan \/ Pick \/ Switch \/ Publish
  <2>1. Exiting /\ UNCHANGED <<pid, before, cpu, met>>
    BY <1>2 DEF Exiting, ExitPoints, FreeStack, Scan, Pick, Switch, Publish, locals,
                contextVars, vars
  <2>2. Running
    BY <2>1, ExitingRuns
  <2>3. PICK k \in Slots : ExitState(k)
    BY <2>1 DEF BeforeInv
  <2>4. /\ cpu \in Threads /\ at \in [Threads -> ExitPoints \cup {"body"}]
        /\ best \in [Threads -> Slots] /\ MaxProcess \in Nat
        /\ status \in [Slots -> Statuses] /\ wait_time \in [Slots -> Nat]
        /\ \A i \in Slots : i \in Nat /\ i < MaxProcess
    <3>1. MaxProcess \in Nat /\ \A i \in Slots : i \in Nat /\ i < MaxProcess
      BY ProcessAssumption DEF Slots
    <3> QED
      BY <2>2, <3>1 DEF Running, Typed, ExitTypeOK, TypeOK
  <2>5. /\ Stopped(k)' = Stopped(k)
        /\ \A i \in Slots : (Live(i)' <=> Live(i)) =>
             AgedBefore(i)' = AgedBefore(i) /\ (Runnable(status, i)' <=> Runnable(status, i))
    BY <2>1 DEF Stopped, AgedBefore, Runnable, Live
  <2>6. CASE FreeStack
    <3>1. PICK b \in Slots : IsProcess(0, b) /\ best' = [best EXCEPT ![cpu] = b]
      BY <2>6 DEF FreeStack
    <3>2. /\ at[cpu] = "free" /\ at'[cpu] = "scan" /\ index' = 0 /\ best'[cpu] = b
          /\ UNCHANGED <<status, wait_time>>
      BY <2>4, <2>6, <3>1 DEF FreeStack, GoTo, vars
    <3>3. b = 0
      BY <2>2, <3>1, SlotsFinite DEF Running, BackstopInv, IsProcess
    <3>4. \A i \in Slots : ~(i < 0) /\ (Live(i)' <=> Live(i))
      BY <2>4, <3>2 DEF Live
    <3>5. IsBest(b, 0)'
      BY <3>3, <3>4 DEF IsBest
    <3>6. ExitState(k)'
      BY <2>1, <2>3, <2>5, <3>2, <3>4, <3>5 DEF ExitState, IsBest
    <3> QED
      BY <3>6 DEF BeforeInv
  <2>7. CASE Scan
    <3>1. /\ \A i \in Slots : wait_time'[i] = IF i < index + 1 THEN AgedBefore(i)
                                              ELSE before.wait_time[i]
          /\ IsBest(best'[cpu], index + 1)
      BY <2>2, <2>3, <2>7, ScanKeepsBest
    <3>2. /\ at[cpu] = "scan" /\ index' = index + 1 /\ UNCHANGED <<status, at>>
      BY <2>7 DEF Scan, contextVars
    <3>3. \A i \in Slots : Live(i)' <=> Live(i)
      BY <3>2 DEF Live
    <3>4. IsBest(best[cpu], index)' <=> IsBest(best'[cpu], index + 1)
      BY <2>1, <3>2 DEF IsBest, AgedBefore, Runnable
    <3>5. ExitState(k)'
      BY <2>1, <2>3, <2>5, <3>1, <3>2, <3>3, <3>4 DEF ExitState
    <3> QED
      BY <3>5 DEF BeforeInv
  <2>8. CASE Pick
    <3>1. /\ at[cpu] = "scan" /\ at'[cpu] = "switch" /\ index = MaxProcess
          /\ wait_time' = [wait_time EXCEPT ![best[cpu]] = 0]
          /\ UNCHANGED <<status, best>>
      BY <2>4, <2>8 DEF Pick, GoTo
    <3>2. \A i \in Slots : Live(i)' <=> Live(i)
      BY <3>1 DEF Live
    <3>3. \A i \in Slots : wait_time'[i] = IF i = best[cpu] THEN 0 ELSE AgedBefore(i)
      BY <2>3, <2>4, <3>1 DEF ExitState
    <3>4. IsBest(best[cpu], MaxProcess)' <=> IsBest(best[cpu], index)
      BY <2>1, <3>1 DEF IsBest, AgedBefore, Runnable
    <3>5. ExitState(k)'
      BY <2>1, <2>3, <2>5, <3>1, <3>2, <3>3, <3>4 DEF ExitState
    <3> QED
      BY <3>5 DEF BeforeInv
  <2>9. CASE Switch
    <3>1. /\ at[cpu] = "switch" /\ at'[cpu] = "publish"
          /\ UNCHANGED <<wait_time, best>>
          /\ status' = [i \in Slots |->
                          IF i = best[cpu] THEN "ACTIVE"
                          ELSE IF IsProcess(active_pid, i) /\ status[i] = "ACTIVE"
                          THEN "WAITING" ELSE status[i]]
      BY <2>4, <2>9 DEF Switch, GoTo, locals
    <3>2. Live(best[cpu]) /\ cpu = active_pid
      BY <2>2, <3>1 DEF Running, CpuInv
    <3>3. \A i \in Slots : ~IsProcess(active_pid, i)
      BY <2>1, <2>2, <3>2, ExitingIsDead DEF IsProcess
    <3>4. status' = [status EXCEPT ![best[cpu]] = "ACTIVE"]
      BY <2>4, <3>1, <3>3
    <3>5. \A i \in Slots : Live(i)' <=> Live(i)
      BY <2>4, <3>2, <3>4 DEF Live
    <3>6. IsBest(best[cpu], MaxProcess)' <=> IsBest(best[cpu], MaxProcess)
      BY <2>1, <2>4, <2>5, <3>1, <3>5 DEF IsBest
    <3>7. status' = [Stopped(k) EXCEPT ![best[cpu]] = "ACTIVE"]
      BY <2>3, <3>1, <3>4 DEF ExitState
    <3>8. \A i \in Slots : /\ Live(i)' <=> Stopped(k)'[i] # "STOPPED"
                           /\ wait_time'[i] = IF i = best'[cpu'] THEN 0 ELSE AgedBefore(i)'
      BY <2>1, <2>3, <2>5, <3>1, <3>5 DEF ExitState
    <3>9. status' = [Stopped(k)' EXCEPT ![best'[cpu']] = "ACTIVE"]
      BY <2>1, <2>5, <3>1, <3>7
    <3>10. at'[cpu'] = "publish" /\ IsBest(best[cpu], MaxProcess)'
      BY <2>1, <2>3, <3>1, <3>6 DEF ExitState
    <3>11. ExitState(k)'
      BY <2>1, <2>3, <3>8, <3>9, <3>10 DEF ExitState
    <3> QED
      BY <3>11 DEF BeforeInv
  <2>10. CASE Publish
    <3>1. /\ at[cpu] = "publish" /\ at'[cpu] = "load"
          /\ UNCHANGED <<status, wait_time, best>>
      BY <2>4, <2>10 DEF Publish, GoTo, locals
    <3>2. \A i \in Slots : Live(i)' <=> Live(i)
      BY <3>1 DEF Live
    <3>3. IsBest(best[cpu], MaxProcess)' <=> IsBest(best[cpu], MaxProcess)
      BY <2>1, <2>4, <2>5, <3>1, <3>2 DEF IsBest
    <3>4. ExitState(k)'
      BY <2>1, <2>3, <2>5, <3>1, <3>2, <3>3 DEF ExitState
    <3> QED
      BY <3>4 DEF BeforeInv
  <2> QED
    BY <1>2, <2>6, <2>7, <2>8, <2>9, <2>10
<1> QED
  BY <1>1, <1>2

\* The other steps do not lead onto the exit path, or an interrupt has met it.
LEMMA OtherStepBefore ==
  ASSUME ExitIInv, ExitNext,
         ~(Kill \/ FreeStack \/ Scan \/ Pick \/ Switch \/ Publish)
  PROVE  met' = {} => ~Exiting'
<1> SUFFICES ASSUME met' = {} PROVE ~Exiting'
  OBVIOUS
<1>1. CASE BootNumber \/ BootReserve \/ BootFill \/ BootPublish \/ BootClock
  <2>1. UNCHANGED <<cpu, at, met>> /\ ~clock_on
    <3>1. boot.made < BootProcesses \/ ~clock_on
      BY <1>1 DEF BootNumber, BootReserve, BootFill, BootPublish, BootClock, ExitIInv,
                  Typed, BootTyped
    <3>2. ~(BootProcesses < BootProcesses)
      BY ProcessAssumption
    <3> QED
      BY <1>1, <3>1, <3>2
         DEF BootNumber, BootReserve, BootFill, BootPublish, BootClock, contextVars,
             ExitIInv, Typed, BootTyped
  <2>2. at[cpu] = "body"
    BY <2>1, PidsAndThreads DEF ExitIInv, BootInv
  <2> QED
    BY <2>1, <2>2 DEF Exiting, ExitPoints
<1>2. CASE Keyboard
  <2>1. met = {} /\ ~Exiting /\ clock_on /\ cpu' = cpu
    BY <1>2 DEF Keyboard, Interrupt
  <2>2. at'[cpu] = at[cpu]
    <3>1. PICK p \in PIDs : next_pid' = p
      BY <1>2 DEF Keyboard, InitProcess, InitProcessFull
    <3>2. at[cpu] = "body" /\ at \in [Threads -> ExitPoints \cup {"body"}] /\ cpu \in Threads
      BY <2>1 DEF Exiting, ExitPoints, ExitIInv, Typed, ExitTypeOK
    <3>3. at' = at \/ at' = [at EXCEPT ![p] = "body"]
      BY <1>2, <3>1 DEF Keyboard
    <3> QED
      BY <3>2, <3>3
  <2> QED
    BY <2>1, <2>2 DEF Exiting
<1>3. CASE Clock \/ Load
  <2>1. met = {} /\ clock_on
    <3>1. CASE Clock
      BY <3>1 DEF Clock, Interrupt, Tick
    <3>2. CASE Load
      BY <3>2, ExitingRuns DEF Load, Exiting, ExitPoints, Running
    <3> QED
      BY <3>1, <3>2, <1>3
  <2>2. Running /\ StackInv
    BY <2>1 DEF ExitIInv, RunInv, Running
  <2>3. \A i \in Slots : Live(i) => saved[i] = pid[i] /\ at[saved[i]] = "body"
    BY <2>1, <2>2 DEF StackInv, Running, ProcessInv
  <2>4. CASE Clock
    <3>1. ~Exiting /\ at' = at
      BY <2>4 DEF Clock, Interrupt
    <3>2. cpu' = cpu \/ \E i \in Slots : Live(i) /\ cpu' = saved[i]
      BY <2>4 DEF Clock, IsProcess
    <3> QED
      BY <2>3, <3>1, <3>2 DEF Exiting, ExitPoints
  <2>5. CASE Load
    <3>1. at' = at /\ cpu' = saved[best[cpu]] /\ Live(best[cpu]) /\ best[cpu] \in Slots
      BY <2>2, <2>5 DEF Load, Running, CpuInv, Typed, ExitTypeOK
    <3> QED
      BY <2>3, <3>1 DEF Exiting, ExitPoints
  <2> QED
    BY <1>3, <2>4, <2>5
<1> QED
  BY <1>1, <1>2, <1>3 DEF ExitNext

LEMMA NextBeforeInv == ExitIInv /\ BeforeInv /\ [ExitNext]_allVars => BeforeInv'
<1> SUFFICES ASSUME ExitIInv, BeforeInv, [ExitNext]_allVars PROVE BeforeInv'
  OBVIOUS
<1>1. CASE UNCHANGED allVars
  BY <1>1 DEF allVars, vars, contextVars, locals, BeforeInv, ExitState, Exiting,
              IsBest, AgedBefore, Stopped, Runnable, Live
<1>2. CASE Kill \/ FreeStack \/ Scan \/ Pick \/ Switch \/ Publish
  <2>1. met' = met
    BY <1>2 DEF Kill, FreeStack, Scan, Pick, Switch, Publish
  <2> QED
    BY <1>2, <2>1, ExitStepBefore DEF BeforeInv
<1>3. CASE ExitNext /\ ~(Kill \/ FreeStack \/ Scan \/ Pick \/ Switch \/ Publish)
  BY <1>3, OtherStepBefore DEF BeforeInv
<1> QED
  BY <1>1, <1>2, <1>3

\* The constants of the abstract module are those of this one.
LEMMA SeenConstants ==
  /\ Atomically!Slots = Slots /\ Atomically!PIDs = PIDs /\ Atomically!NoPid = NoPid
BY DEF Atomically!Slots, Slots, Atomically!PIDs, PIDs, Atomically!NoPid, NoPid

\* Off the exit path the table that is seen is the table.
LEMMA SeenIdle ==
  ASSUME ~Exiting
  PROVE  /\ statusSeen = status /\ wait_timeSeen = wait_time
         /\ active_pidSeen = active_pid
BY DEF statusSeen, wait_timeSeen, active_pidSeen

\* The operators of the abstract module, off the exit path.
LEMMA SeenTable ==
  ASSUME ~Exiting, next_pidSeen = next_pid
  PROVE  /\ \A i \in Slots : Atomically!IsFreeSlot(i) <=> IsFreeSlot(i)
         /\ \A i \in Slots : Atomically!Live(i) <=> Live(i)
         /\ \A p \in PIDs : Atomically!IsNextPid(p) <=> IsNextPid(p)
         /\ Atomically!SwitchFromQueue(statusSeen) <=>
              \E i \in Slots :
                /\ IsChosen(status, i)
                /\ wait_timeSeen' = [Aged(status) EXCEPT ![i] = 0]
                /\ active_pidSeen' = pid[i]
                /\ statusSeen' = IF pid[i] = active_pid THEN status
                                 ELSE [j \in Slots |->
                                         IF j = i THEN "ACTIVE"
                                         ELSE IF pid[j] = active_pid /\ status[j] = "ACTIVE"
                                         THEN "WAITING"
                                         ELSE status[j]]
<1> USE SeenConstants, SeenIdle
<1>1. \A i \in Slots : Atomically!Live(i) <=> Live(i)
  BY DEF Atomically!Live, Live
<1>2. \A i \in Slots : Atomically!IsFreeSlot(i) <=> IsFreeSlot(i)
  BY <1>1 DEF Atomically!IsFreeSlot, IsFreeSlot
<1>3. \A p \in PIDs : Atomically!NoProcess(p) <=> NoProcess(p)
  BY <1>1 DEF Atomically!NoProcess, NoProcess
<1>4. \A p \in PIDs : Atomically!PidDistance(p) = PidDistance(p)
  BY DEF Atomically!PidDistance, PidDistance
<1>5. 1..MaxPid \subseteq PIDs
  BY ProcessAssumption DEF PIDs
<1>6. \A p \in PIDs : Atomically!IsNextPid(p) <=> IsNextPid(p)
  BY <1>3, <1>4, <1>5 DEF Atomically!IsNextPid, IsNextPid
<1>7. Atomically!Aged(status) = Aged(status)
  BY DEF Atomically!Aged, Aged, Atomically!Runnable, Runnable
<1>8. \A i \in Slots : Atomically!IsChosen(status, i) <=> IsChosen(status, i)
  BY <1>7 DEF Atomically!IsChosen, IsChosen, Atomically!Runnable, Runnable
<1>9. Atomically!SwitchFromQueue(statusSeen) <=>
        \E i \in Slots :
          /\ IsChosen(status, i)
          /\ wait_timeSeen' = [Aged(status) EXCEPT ![i] = 0]
          /\ active_pidSeen' = pid[i]
          /\ statusSeen' = IF pid[i] = active_pid THEN status
                           ELSE [j \in Slots |->
                                   IF j = i THEN "ACTIVE"
                                   ELSE IF pid[j] = active_pid /\ status[j] = "ACTIVE"
                                   THEN "WAITING"
                                   ELSE status[j]]
  BY <1>7, <1>8 DEF Atomically!SwitchFromQueue
<1> QED
  BY <1>1, <1>2, <1>6, <1>9

\* The statements of init_process at boot amount to one step.
LEMMA BootImplements ==
  ASSUME ExitIInv, ExitIInv', met' = {},
         BootNumber \/ BootReserve \/ BootFill \/ BootPublish \/ BootClock
  PROVE  Atomically!Next \/ UNCHANGED Atomically!vars
<1>1. met = {} /\ UNCHANGED <<cpu, at, before>>
  BY DEF BootNumber, BootReserve, BootFill, BootPublish, BootClock, contextVars, locals
<1>2. ~clock_on
  <2>1. boot.made < BootProcesses \/ ~clock_on
    BY DEF BootNumber, BootReserve, BootFill, BootPublish, BootClock, ExitIInv,
           Typed, BootTyped
  <2>2. ~(BootProcesses < BootProcesses)
    BY ProcessAssumption
  <2> QED
    BY <2>1, <2>2 DEF ExitIInv, Typed, BootTyped
<1>3. /\ ~halted /\ cpu = NoPid /\ active_pid = NoPid /\ at[cpu] = "body"
      /\ next_pid = IF boot.at = "kernel_main" THEN boot.made - 1 ELSE boot.made
      /\ boot.at # "kernel_main" => boot.pid = boot.made
      /\ boot.at \in {"fill", "publish"} => boot.slot = boot.made
      /\ \A i \in Slots : /\ Live(i) <=> i < boot.made
                          /\ Live(i) => pid[i] = i
      /\ boot.made \in Nat /\ boot.made <= BootProcesses
  BY <1>1, <1>2, PidsAndThreads, ProcessAssumption DEF ExitIInv, BootInv, Typed, BootTyped
<1>4. ~Exiting /\ ~Exiting'
  BY <1>1, <1>3 DEF Exiting, ExitPoints
<1>5. /\ statusSeen = status /\ wait_timeSeen = wait_time /\ active_pidSeen = active_pid
      /\ statusSeen' = status' /\ wait_timeSeen' = wait_time'
      /\ active_pidSeen' = active_pid'
  BY <1>4 DEF statusSeen, wait_timeSeen, active_pidSeen
<1>6. next_pidSeen = boot.made - 1
  BY <1>3 DEF next_pidSeen
<1>7. CASE BootNumber
  <2>1. PICK p \in PIDs, s \in FreeStacks :
          /\ IsNextPid(p) /\ next_pid' = p
          /\ boot' = [boot EXCEPT !.at = "reserve", !.pid = p, !.stack = s]
    BY <1>7 DEF BootNumber
  <2>2. boot'.at = "reserve" /\ boot'.pid = p /\ boot'.made = boot.made
    BY <2>1 DEF ExitIInv, Typed, BootTyped
  <2>3. p = boot.made
    <3>1. ~clock_on'
      BY <1>2, <1>7 DEF BootNumber
    <3> QED
      BY <2>2, <3>1 DEF ExitIInv, BootInv
  <2>4. UNCHANGED <<next_pidSeen, pid, status, wait_time, active_pid, clock_on, halted>>
    BY <1>6, <1>7, <2>2, <2>3 DEF BootNumber, next_pidSeen
  <2> QED
    BY <2>4, <1>5 DEF Atomically!vars
<1>8. CASE BootReserve \/ BootFill
  <2>1. /\ UNCHANGED <<pid, status, wait_time, active_pid, clock_on>>
        /\ boot.at # "kernel_main" /\ boot'.at # "kernel_main" /\ boot'.pid = boot.pid
    BY <1>8 DEF BootReserve, BootFill, ExitIInv, Typed, BootTyped, vars
  <2>2. halted' = halted
    <3>1. ~halted' /\ halted \in BOOLEAN /\ halted' \in BOOLEAN
      BY <1>2, <2>1 DEF ExitIInv, BootInv, Typed, ExitTypeOK, TypeOK
    <3> QED
      BY <1>3, <3>1
  <2> QED
    BY <2>1, <2>2, <1>5 DEF Atomically!vars, next_pidSeen
<1>9. CASE BootPublish
  <2>1. PICK n \in Slots : n = boot.made /\ boot.slot = n /\ boot.pid = n /\ n \in PIDs
    BY <1>3, <1>9 DEF BootPublish, ExitIInv, Typed, BootTyped
  <2>2. /\ UNCHANGED <<active_pid, next_pid, clock_on, halted>>
        /\ pid' = [pid EXCEPT ![n] = n]
        /\ status' = [status EXCEPT ![n] = "SPAWNED"]
        /\ wait_time' = [wait_time EXCEPT ![n] = 0]
        /\ boot'.at = "kernel_main" /\ next_pid = n /\ boot.made < BootProcesses
    BY <1>3, <1>9, <2>1 DEF BootPublish, InKernelMain, ExitIInv, Typed, BootTyped
  <2>3. next_pidSeen' = n /\ next_pidSeen = n - 1 /\ n \in Nat
    BY <1>3, <1>6, <2>1, <2>2 DEF next_pidSeen
  <2>4. \A i \in Slots : Atomically!Live(i) <=> i < n
    BY <1>3, <1>5, <2>1 DEF Atomically!Live, Live
  <2>5. Atomically!IsFreeSlot(n)
    BY <2>3, <2>4, SeenConstants DEF Atomically!IsFreeSlot, Slots
  <2>6. Atomically!IsNextPid(n)
    <3>1. Atomically!NoProcess(n)
      BY <1>3, <2>1, <2>3, <2>4, <1>5, SeenConstants
         DEF Atomically!NoProcess, Atomically!Live, Live, Slots
    <3>2. \A q \in PIDs : Atomically!NoProcess(q) =>
            Atomically!PidDistance(n) <= Atomically!PidDistance(q)
      <4> SUFFICES ASSUME NEW q \in PIDs
                   PROVE  Atomically!PidDistance(n) <= Atomically!PidDistance(q)
        OBVIOUS
      <4>1. q \in Nat /\ q <= MaxPid /\ MaxPid \in Nat
        BY ProcessAssumption DEF PIDs
      <4>2. Atomically!PidDistance(n) = 1
        BY <2>3 DEF Atomically!PidDistance
      <4>3. n <= MaxPid
        BY <2>1 DEF PIDs
      <4>4. Atomically!PidDistance(q) >= 1
        BY <2>3, <4>1, <4>3 DEF Atomically!PidDistance
      <4> QED
        BY <4>1, <4>2, <4>4, <2>3 DEF Atomically!PidDistance
    <3>3. next_pidSeen # NoPid => n \in 1..MaxPid
      BY <2>1, <2>3 DEF PIDs, NoPid
    <3>4. 1..MaxPid \subseteq PIDs
      BY ProcessAssumption DEF PIDs
    <3> QED
      BY <2>1, <3>1, <3>2, <3>3, <3>4, SeenConstants DEF Atomically!IsNextPid
  <2>7. Atomically!InitProcess
    BY <2>1, <2>2, <2>3, <2>5, <2>6, <1>5, SeenConstants DEF Atomically!InitProcess
  <2>8. next_pidSeen < BootProcesses - 1
    BY <1>3, <2>1, <2>2, <2>3, ProcessAssumption
  <2> QED
    BY <1>2, <2>7, <2>8 DEF Atomically!Boot, Atomically!Next
<1>10. CASE BootClock
  <2>1. boot.made = BootProcesses /\ boot' = boot /\ next_pid' = next_pid
    BY <1>10 DEF BootClock
  <2>2. next_pidSeen = BootProcesses - 1 /\ next_pidSeen' = next_pidSeen
    BY <1>6, <2>1 DEF next_pidSeen
  <2>3. Atomically!StartClock
    BY <1>2, <1>5, <1>10, <2>2 DEF BootClock, Atomically!StartClock
  <2> QED
    BY <2>3 DEF Atomically!Next
<1> QED
  BY <1>7, <1>8, <1>9, <1>10

\* While no interrupt has met the boot, kernel_main is between two calls.
LEMMA RunningImplies ==
  ASSUME Running
  PROVE  boot.at = "kernel_main" /\ next_pidSeen = next_pid
BY DEF Running, Typed, BootTyped, next_pidSeen

LEMMA InterruptsImplement ==
  ASSUME ExitIInv, ExitIInv', met' = {}, Keyboard \/ Clock, ~Exiting'
  PROVE  Atomically!Next \/ UNCHANGED Atomically!vars
<1>1. /\ met = {} /\ ~Exiting /\ clock_on /\ ~halted /\ UNCHANGED <<boot, clock_on>>
  BY DEF Keyboard, Clock, Interrupt, Tick, InitProcess, InitProcessFull
<1>2. Running
  BY <1>1 DEF ExitIInv, RunInv, Running
<1>3. next_pidSeen = next_pid /\ next_pidSeen' = next_pid'
  BY <1>1, <1>2, RunningImplies DEF next_pidSeen
<1>4. /\ statusSeen = status /\ wait_timeSeen = wait_time /\ active_pidSeen = active_pid
      /\ statusSeen' = status' /\ wait_timeSeen' = wait_time'
      /\ active_pidSeen' = active_pid'
  BY <1>1 DEF statusSeen, wait_timeSeen, active_pidSeen
<1>5. CASE Keyboard
  <2>1. InitProcess => Atomically!InitProcess
    BY <1>1, <1>3, <1>4, SeenTable, SeenConstants DEF InitProcess, Atomically!InitProcess
  <2>2. InitProcessFull => Atomically!InitProcessFull
    BY <1>1, <1>3, <1>4, SeenTable, SeenConstants
       DEF InitProcessFull, Atomically!InitProcessFull
  <2> QED
    BY <1>1, <1>5, <2>1, <2>2 DEF Keyboard, Atomically!Spawn, Atomically!Next
<1>6. CASE Clock
  <2>1. Tick
    BY <1>6 DEF Clock
  <2>2. Atomically!SwitchFromQueue(statusSeen)
    BY <2>1, <1>1, <1>3, <1>4, SeenTable DEF Tick, SwitchFromQueue
  <2>3. Atomically!Tick
    BY <2>1, <2>2, <1>3, <1>4 DEF Tick, Atomically!Tick
  <2> QED
    BY <2>3 DEF Atomically!Next
<1> QED
  BY <1>5, <1>6

\* Up to the load of the new context, an exit changes nothing that is seen.
LEMMA ExitStutters ==
  ASSUME ExitIInv, ExitIInv', met' = {},
         Kill \/ FreeStack \/ Scan \/ Pick \/ Switch \/ Publish
  PROVE  UNCHANGED Atomically!vars
<1>1. met = {} /\ UNCHANGED <<pid, next_pid, clock_on, boot, cpu>>
  BY DEF Kill, FreeStack, Scan, Pick, Switch, Publish, vars, contextVars, locals
<1>2. cpu \in Threads /\ at \in [Threads -> ExitPoints \cup {"body"}]
  BY DEF ExitIInv, Typed, ExitTypeOK
<1>3. next_pidSeen' = next_pidSeen
  BY <1>1 DEF next_pidSeen
<1>4. CASE Kill
  <2>1. /\ at[cpu] = "body" /\ at'[cpu] = "free" /\ UNCHANGED halted
        /\ before' = [status |-> status, wait_time |-> wait_time, active_pid |-> active_pid]
    BY <1>2, <1>4 DEF Kill, GoTo
  <2>2. ~Exiting /\ Exiting'
    BY <1>1, <2>1 DEF Exiting, ExitPoints
  <2> QED
    BY <1>1, <1>3, <2>1, <2>2
       DEF Atomically!vars, statusSeen, wait_timeSeen, active_pidSeen
<1>5. CASE FreeStack \/ Scan \/ Pick \/ Switch \/ Publish
  <2>1. Exiting /\ Exiting' /\ before' = before
    BY <1>1, <1>2, <1>5
       DEF Exiting, ExitPoints, GoTo, FreeStack, Scan, Pick, Switch, Publish, contextVars,
           locals
  <2>2. Running
    BY <1>1, <2>1, ExitingRuns
  <2>3. halted' = halted
    <3>1. CASE Pick
      <4>1. Live(best[cpu]) /\ best[cpu] \in Slots /\ cpu = active_pid
        BY <2>2, <3>1 DEF Pick, Running, CpuInv, Typed, ExitTypeOK
      <4>2. ~halted /\ ~halted'
        BY <2>1, <2>2, <3>1, <4>1, ExitingIsDead DEF Pick
      <4>3. halted \in BOOLEAN /\ halted' \in BOOLEAN
        BY DEF ExitIInv, Typed, ExitTypeOK, TypeOK
      <4> QED
        BY <4>2, <4>3
    <3>2. CASE FreeStack \/ Scan \/ Switch \/ Publish
      BY <3>2 DEF FreeStack, Scan, Switch, Publish, vars
    <3> QED
      BY <1>5, <3>1, <3>2
  <2> QED
    BY <1>1, <1>3, <2>1, <2>3
       DEF Atomically!vars, statusSeen, wait_timeSeen, active_pidSeen
<1> QED
  BY <1>4, <1>5

\* The load of the new context is where the exit is seen.
LEMMA LoadImplements ==
  ASSUME ExitIInv, ExitIInv', BeforeInv, met' = {}, Load, ~Exiting'
  PROVE  Atomically!Exit
<1> DEFINE b == best[cpu]
<1>1. /\ met = {} /\ Exiting /\ at[cpu] = "load" /\ ~halted
      /\ UNCHANGED <<pid, status, wait_time, active_pid, next_pid, clock_on, halted, boot>>
  BY DEF Load, Exiting, ExitPoints, vars
<1>2. Running
  BY <1>1, ExitingRuns
<1>3. PICK k \in Slots : ExitState(k)
  BY <1>1 DEF BeforeInv
<1> DEFINE st == [before.status EXCEPT ![k] = "STOPPED"]
<1>4. /\ b \in Slots /\ pid[b] = active_pid /\ Live(b) /\ cpu \in PIDs /\ cpu # 0 /\ clock_on
      /\ next_pidSeen = next_pid /\ next_pidSeen' = next_pid'
  BY <1>1, <1>2, ExitingIsDead, RunningImplies, SlotsFinite
     DEF Running, CpuInv, BackstopInv, ProcessInv, Typed, ExitTypeOK, next_pidSeen
<1>5. /\ statusSeen = before.status /\ wait_timeSeen = before.wait_time
      /\ active_pidSeen = cpu
      /\ statusSeen' = status /\ wait_timeSeen' = wait_time /\ active_pidSeen' = active_pid
  BY <1>1, <1>3 DEF statusSeen, wait_timeSeen, active_pidSeen, ExitState
<1>6. /\ before.status \in [Slots -> Statuses] /\ before.wait_time \in [Slots -> Nat]
      /\ before.wait_time[0] = 0
      /\ status = [st EXCEPT ![b] = "ACTIVE"] /\ st[b] # "STOPPED"
      /\ \A i \in Slots : Live(i) <=> st[i] # "STOPPED"
      /\ \A i \in Slots : wait_time[i] = IF i = b THEN 0 ELSE AgedBefore(i)
      /\ IsBest(b, MaxProcess)
  BY <1>1, <1>3, <1>4 DEF ExitState, Stopped
<1>7. Atomically!IsProcess(active_pidSeen, k)
  BY <1>3, <1>5, SeenConstants DEF Atomically!IsProcess, Atomically!Live, ExitState
<1> HIDE DEF st, b
<1>8. \A i \in Slots : Atomically!Runnable(st, i) <=> Runnable(status, i)
  BY <1>6 DEF Atomically!Runnable, Runnable, Live
<1>9. /\ Atomically!Aged(st) = [i \in Slots |-> AgedBefore(i)]
  BY <1>5, <1>8, SeenConstants DEF Atomically!Aged, AgedBefore
<1>10. Atomically!IsChosen(st, b)
  <2> DEFINE beats(j) == Atomically!Runnable(st, j) /\ \A z \in Slots :
                           st[z] # "STOPPED" /\ pid[z] = 0 => AgedBefore(j) > AgedBefore(z)
  <2>1. st[0] # "STOPPED" /\ pid[0] = 0 /\ \A z \in Slots : Live(z) /\ pid[z] = 0 => z = 0
    BY <1>6, <1>2, SlotsFinite DEF Running, BackstopInv
  <2>2. AgedBefore(0) = 0
    BY <1>6, <2>1 DEF AgedBefore, Runnable
  <2>3. \A j \in Slots : Runnable(status, j) => AgedBefore(j) > 0
    BY <1>6 DEF AgedBefore
  <2>4. \A j \in Slots : beats(j) <=> Runnable(status, j)
    BY <1>6, <1>8, <2>1, <2>2, <2>3
  <2>5. CASE b = 0 /\ \A i \in Slots : ~Runnable(status, i)
    <3>1. st[b] # "STOPPED" /\ pid[b] = 0 /\ \A j \in Slots : ~beats(j)
      BY <2>1, <2>4, <2>5
    <3> QED
      BY <3>1, <1>9, SeenConstants DEF Atomically!IsChosen
  <2>6. CASE /\ Runnable(status, b)
             /\ \A i \in Slots : Runnable(status, i) /\ i # b =>
                  \/ AgedBefore(i) < AgedBefore(b)
                  \/ AgedBefore(i) = AgedBefore(b) /\ b < i
    <3>1. beats(b) /\ \A j \in Slots : Atomically!Runnable(st, j) /\ j # b =>
                        \/ AgedBefore(j) < AgedBefore(b)
                        \/ AgedBefore(j) = AgedBefore(b) /\ b < j
      BY <1>4, <1>8, <2>4, <2>6
    <3> QED
      BY <3>1, <1>4, <1>9, SeenConstants DEF Atomically!IsChosen
  <2>7. \A i \in Slots : i < MaxProcess
    BY ProcessAssumption DEF Slots
  <2> QED
    BY <1>6, <2>5, <2>6, <2>7 DEF IsBest
<1>11. wait_timeSeen' = [Atomically!Aged(st) EXCEPT ![b] = 0]
  <2>1. wait_time \in [Slots -> Nat]
    BY <1>2 DEF Running, Typed, ExitTypeOK, TypeOK
  <2> QED
    BY <2>1, <1>4, <1>5, <1>6, <1>9
<1>12. active_pidSeen' = pid[b] /\ pid[b] # active_pidSeen
  BY <1>1, <1>2, <1>4, <1>5, ExitingIsDead
<1>13. statusSeen' = [j \in Slots |->
                        IF j = b THEN "ACTIVE"
                        ELSE IF pid[j] = active_pidSeen /\ st[j] = "ACTIVE"
                        THEN "WAITING"
                        ELSE st[j]]
  <2>1. \A j \in Slots : ~(pid[j] = cpu /\ st[j] = "ACTIVE")
    BY <1>1, <1>2, <1>6, ExitingIsDead
  <2>2. st \in [Slots -> Statuses]
    BY <1>6 DEF st, Statuses
  <2> QED
    BY <2>1, <2>2, <1>5, <1>6
<1>14. Atomically!SwitchFromQueue(st)
  BY <1>4, <1>10, <1>11, <1>12, <1>13, SeenConstants DEF Atomically!SwitchFromQueue
<1>15. Atomically!SwitchFromQueue([statusSeen EXCEPT ![k] = "STOPPED"])
  BY <1>5, <1>14 DEF st
<1> QED
  BY <1>1, <1>4, <1>5, <1>7, <1>15, SeenConstants, PidsAndThreads DEF Atomically!Exit

\* Until an interrupt arrives on one of its two paths, the detailed exit and
\* boot implement the process table whose operations are atomic.
THEOREM ExitImplementsScheduler == ExitSpec => ImplementsScheduler
<1>1. ExitInit => Atomically!Init
  <2> SUFFICES ASSUME ExitInit PROVE Atomically!Init
    OBVIOUS
  <2>1. ~Exiting /\ boot.at = "kernel_main"
    BY PidsAndThreads DEF ExitInit, Exiting, ExitPoints, InKernelMain
  <2>2. next_pidSeen = next_pid
    BY <2>1 DEF next_pidSeen
  <2> QED
    BY <2>1, <2>2, SeenIdle, SeenConstants DEF ExitInit, Init, Atomically!Init
<1>2. ExitInit => BeforeInv
  BY PidsAndThreads DEF ExitInit, BeforeInv, Exiting, ExitPoints
<1>3. ExitIInv /\ ExitIInv' /\ BeforeInv /\ [ExitNext]_allVars =>
        [met' = {} => Atomically!Next]_(Atomically!vars)
  <2> SUFFICES ASSUME ExitIInv, ExitIInv', BeforeInv, [ExitNext]_allVars, met' = {}
               PROVE  Atomically!Next \/ UNCHANGED Atomically!vars
    OBVIOUS
  <2>1. CASE UNCHANGED allVars
    BY <2>1 DEF allVars, vars, contextVars, locals, Atomically!vars, statusSeen,
                wait_timeSeen, active_pidSeen, next_pidSeen, Exiting
  <2>2. CASE BootNumber \/ BootReserve \/ BootFill \/ BootPublish \/ BootClock
    BY <2>2, BootImplements
  <2>3. CASE Kill \/ FreeStack \/ Scan \/ Pick \/ Switch \/ Publish
    BY <2>3, ExitStutters
  <2>4. CASE ExitNext /\ ~(Kill \/ FreeStack \/ Scan \/ Pick \/ Switch \/ Publish)
    <3>1. ~Exiting'
      BY <2>4, OtherStepBefore
    <3> QED
      BY <2>2, <2>4, <3>1, InterruptsImplement, LoadImplements DEF ExitNext, Atomically!Next
  <2> QED
    BY <2>1, <2>3, <2>4
<1> QED
  BY <1>1, <1>2, <1>3, ExitInvariance, NextBeforeInv, PTL DEF ExitSpec, ImplementsScheduler
=============================================================================
