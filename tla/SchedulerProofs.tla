--------------------------- MODULE SchedulerProofs ---------------------------
(* The safety properties of Scheduler, for every number of slots and PIDs. *)
EXTENDS Scheduler, FiniteSetTheorems, TLAPS

\* The table is empty until the first PID is given; from then on slot 0 is the
\* backstop, the only process with PID 0, and its wait is never counted.
BackstopInv ==
    /\ next_pid = NoPid => \A i \in Slots : ~Live(i)
    /\ next_pid # NoPid => /\ Live(0) /\ pid[0] = 0 /\ wait_time[0] = 0
                           /\ \A i \in Slots \ {0} : Live(i) => pid[i] # 0
    /\ clock_on => next_pid # NoPid

\* active_pid names a process that is alive, once it names any.
ActiveInv ==
    /\ ActiveIsCurrent
    /\ active_pid # NoPid => \E i \in Slots : Live(i) /\ pid[i] = active_pid

\* A process waits for no more decisions than there are processes ahead of
\* it: each decision takes one of them away and none can come to be ahead.
WaitInv ==
    \A i \in Slots :
        Runnable(status, i) => wait_time[i] + Cardinality(Ahead(i)) <= MaxProcess - 2

IInv == TypeOK /\ UniquePids /\ BackstopInv /\ ActiveInv /\ WaitInv

-----------------------------------------------------------------------------
LEMMA SlotsFinite == IsFiniteSet(Slots) /\ Cardinality(Slots) = MaxProcess /\ 0 \in Slots
<1>1. MaxProcess \in Nat \ {0}
  BY ProcessAssumption
<1>2. IsFiniteSet(0..(MaxProcess - 1)) /\
      Cardinality(0..(MaxProcess - 1)) = MaxProcess
  BY <1>1, FS_Interval
<1> QED
  BY <1>1, <1>2 DEF Slots

\* At most MaxProcess - 2 slots are neither i nor the backstop's.
LEMMA OthersBounded ==
  ASSUME NEW i \in Slots, i # 0, NEW A, A \subseteq Slots \ {0, i}
  PROVE  /\ IsFiniteSet(A) /\ Cardinality(A) \in Nat
         /\ Cardinality(A) <= MaxProcess - 2
<1>1. IsFiniteSet(Slots \ {0}) /\ Cardinality(Slots \ {0}) = MaxProcess - 1
  BY SlotsFinite, FS_RemoveElement
<1>2. /\ IsFiniteSet((Slots \ {0}) \ {i})
      /\ Cardinality((Slots \ {0}) \ {i}) = MaxProcess - 1 - 1
  BY <1>1, FS_RemoveElement
<1>3. A \subseteq (Slots \ {0}) \ {i}
  OBVIOUS
<1>4. IsFiniteSet(A) /\ Cardinality(A) <= MaxProcess - 1 - 1
  BY <1>2, <1>3, FS_Subset
<1>5. Cardinality(A) \in Nat /\ MaxProcess \in Nat
  BY <1>4, FS_CardinalityType, ProcessAssumption
<1> QED
  BY <1>4, <1>5

\* Once there is a backstop, the processes ahead of i are other slots than
\* i's and the backstop's.
LEMMA AheadBounded ==
  ASSUME TypeOK, BackstopInv, next_pid # NoPid,
         NEW i \in Slots, Runnable(status, i)
  PROVE  /\ i # 0 /\ Ahead(i) \subseteq Slots \ {0, i}
         /\ IsFiniteSet(Ahead(i)) /\ Cardinality(Ahead(i)) \in Nat
         /\ Cardinality(Ahead(i)) <= MaxProcess - 2
<1>1. i # 0 /\ Ahead(i) \subseteq Slots \ {0, i}
  BY SlotsFinite DEF BackstopInv, Runnable, Ahead, Live
<1> QED
  BY <1>1, OthersBounded

-----------------------------------------------------------------------------
(* One decision of the scheduler, from a table in which some processes of  *)
(* the present one may have been stopped.                                  *)

\* What switch_process_from_queue does to the table, field by field.
LEMMA Decision ==
  ASSUME TypeOK, BackstopInv, next_pid # NoPid,
         NEW st \in [Slots -> Statuses], st[0] = status[0],
         \A i \in Slots : st[i] # "STOPPED" => Live(i),
         SwitchFromQueue(st), pid' = pid
  PROVE  \E c \in Slots :
           /\ IsChosen(st, c) /\ st[c] # "STOPPED"
           /\ active_pid' = pid[c]
           /\ wait_time' \in [Slots -> Nat] /\ wait_time'[c] = 0
           /\ \A i \in Slots \ {c} :
                wait_time'[i] = wait_time[i] + (IF Runnable(st, i) THEN 1 ELSE 0)
           /\ status' \in [Slots -> Statuses]
           /\ \A i \in Slots : status'[i] = "STOPPED" <=> st[i] = "STOPPED"
           /\ status' = IF pid[c] = active_pid THEN st
                        ELSE [j \in Slots |->
                                IF j = c THEN "ACTIVE"
                                ELSE IF pid[j] = active_pid /\ st[j] = "ACTIVE"
                                THEN "WAITING"
                                ELSE st[j]]
<1>1. PICK c \in Slots :
        /\ IsChosen(st, c)
        /\ wait_time' = [Aged(st) EXCEPT ![c] = 0]
        /\ active_pid' = pid[c]
        /\ status' = IF pid[c] = active_pid THEN st
                     ELSE [j \in Slots |->
                             IF j = c THEN "ACTIVE"
                             ELSE IF pid[j] = active_pid /\ st[j] = "ACTIVE"
                             THEN "WAITING"
                             ELSE st[j]]
  BY DEF SwitchFromQueue
<1>2. st[c] # "STOPPED"
  BY <1>1 DEF IsChosen, Runnable
<1>3. Aged(st) \in [Slots -> Nat]
  BY DEF TypeOK, Aged
<1>4. /\ wait_time' \in [Slots -> Nat] /\ wait_time'[c] = 0
      /\ \A i \in Slots \ {c} : wait_time'[i] = Aged(st)[i]
  BY <1>1, <1>3
<1>5. \A i \in Slots \ {c} :
        wait_time'[i] = wait_time[i] + (IF Runnable(st, i) THEN 1 ELSE 0)
  BY <1>4 DEF Aged
<1>6. status' \in [Slots -> Statuses]
  BY <1>1 DEF Statuses
<1>7. \A i \in Slots : status'[i] = "STOPPED" <=> st[i] = "STOPPED"
  BY <1>1, <1>2
<1> QED
  BY <1>1, <1>2, <1>4, <1>5, <1>6, <1>7

\* The chosen process is runnable or there is nothing to run but the backstop;
\* if it is runnable, it was ahead of every other runnable one.
LEMMA ChosenIsAhead ==
  ASSUME TypeOK, BackstopInv, next_pid # NoPid,
         NEW st \in [Slots -> Statuses], st[0] = status[0],
         \A i \in Slots : st[i] # "STOPPED" => Live(i),
         NEW c \in Slots, IsChosen(st, c)
  PROVE  \/ /\ Runnable(st, c)
            /\ \A j \in Slots : Runnable(st, j) /\ j # c =>
                 \/ wait_time[c] > wait_time[j]
                 \/ wait_time[c] = wait_time[j] /\ c < j
         \/ c = 0 /\ \A j \in Slots : ~Runnable(st, j)
<1> DEFINE w == Aged(st)
           beats(j) == Runnable(st, j) /\ \A b \in Slots :
                         st[b] # "STOPPED" /\ pid[b] = 0 => w[j] > w[b]
<1>1. \A j \in Slots : /\ wait_time[j] \in Nat
                       /\ Runnable(st, j) => w[j] = wait_time[j] + 1
                       /\ ~Runnable(st, j) => w[j] = wait_time[j]
  BY DEF TypeOK, Aged
<1>2. \A b \in Slots : st[b] # "STOPPED" /\ pid[b] = 0 => b = 0 /\ w[b] = 0
  <2> SUFFICES ASSUME NEW b \in Slots, st[b] # "STOPPED", pid[b] = 0
               PROVE  b = 0 /\ w[b] = 0
    OBVIOUS
  <2>1. b = 0
    BY DEF BackstopInv
  <2>2. ~Runnable(st, b) /\ wait_time[b] = 0
    BY <2>1 DEF Runnable, BackstopInv
  <2> QED
    BY <2>1, <2>2, <1>1
<1>3. \A j \in Slots : Runnable(st, j) => beats(j)
  BY <1>1, <1>2
<1>4. CASE /\ beats(c)
           /\ \A j \in Slots : Runnable(st, j) /\ j # c =>
                w[j] < w[c] \/ (w[j] = w[c] /\ c < j)
  <2>1. Runnable(st, c)
    BY <1>4
  <2>2. \A j \in Slots : Runnable(st, j) /\ j # c =>
          \/ wait_time[c] > wait_time[j]
          \/ wait_time[c] = wait_time[j] /\ c < j
    BY <1>4, <2>1, <1>1
  <2> QED
    BY <2>1, <2>2
<1>5. CASE /\ st[c] # "STOPPED" /\ pid[c] = 0
           /\ \A j \in Slots : ~beats(j)
  BY <1>5, <1>2, <1>3
<1> QED
  BY <1>4, <1>5 DEF IsChosen

\* Nobody is further behind after a decision than the bound allows.
LEMMA DecisionKeepsWaitInv ==
  ASSUME TypeOK, BackstopInv, WaitInv, next_pid # NoPid, next_pid' = next_pid,
         NEW st \in [Slots -> Statuses], st[0] = status[0],
         \A i \in Slots : st[i] # "STOPPED" => Live(i),
         SwitchFromQueue(st), pid' = pid
  PROVE  WaitInv'
<1>1. PICK c \in Slots :
        /\ IsChosen(st, c)
        /\ wait_time' \in [Slots -> Nat] /\ wait_time'[c] = 0
        /\ \A i \in Slots \ {c} :
             wait_time'[i] = wait_time[i] + (IF Runnable(st, i) THEN 1 ELSE 0)
        /\ \A i \in Slots : status'[i] = "STOPPED" <=> st[i] = "STOPPED"
  BY Decision
<1>2. \A i \in Slots : Runnable(status, i)' <=> Runnable(st, i)
  BY <1>1 DEF Runnable
<1>3. \A i \in Slots : Runnable(st, i) => Runnable(status, i)
  BY DEF Runnable, Live
<1> SUFFICES ASSUME NEW i \in Slots, Runnable(status, i)'
             PROVE  wait_time'[i] + Cardinality(Ahead(i)') <= MaxProcess - 2
  BY DEF WaitInv
<1>4. Runnable(st, i) /\ Runnable(status, i)
  BY <1>2, <1>3
<1>5. /\ Runnable(st, c)
      /\ \A j \in Slots : Runnable(st, j) /\ j # c =>
           \/ wait_time[c] > wait_time[j]
           \/ wait_time[c] = wait_time[j] /\ c < j
  BY <1>1, <1>4, ChosenIsAhead
<1>6. Ahead(i)' = {j \in Slots : /\ j # i /\ Runnable(st, j)
                                 /\ \/ wait_time'[j] > wait_time'[i]
                                    \/ wait_time'[j] = wait_time'[i] /\ j < i}
  BY <1>2 DEF Ahead
<1>7. /\ i # 0 /\ Ahead(i) \subseteq Slots \ {0, i}
      /\ IsFiniteSet(Ahead(i)) /\ Cardinality(Ahead(i)) \in Nat
  BY <1>4, AheadBounded
<1>8. CASE i = c
  <2>1. Ahead(i)' \subseteq Slots \ {0, i}
    BY <1>6 DEF Runnable, BackstopInv
  <2>2. Cardinality(Ahead(i)') \in Nat /\ Cardinality(Ahead(i)') <= MaxProcess - 2
    BY <2>1, <1>7, OthersBounded
  <2> QED
    BY <2>2, <1>8, <1>1
<1>9. CASE i # c
  <2>1. \A j \in Slots : wait_time[j] \in Nat
    BY DEF TypeOK
  <2>2. c \in Ahead(i)
    BY <1>9, <1>5, <1>4, <1>3 DEF Ahead
  <2>3. Ahead(i)' \subseteq Ahead(i) \ {c}
    <3> SUFFICES ASSUME NEW j \in Slots, j # i, Runnable(st, j),
                        \/ wait_time'[j] > wait_time'[i]
                        \/ wait_time'[j] = wait_time'[i] /\ j < i
                 PROVE  j \in Ahead(i) \ {c}
      BY <1>6
    <3>1. wait_time'[i] = wait_time[i] + 1
      BY <1>1, <1>4, <1>9
    <3>2. j # c
      BY <3>1, <2>1, <1>1
    <3>3. wait_time'[j] = wait_time[j] + 1
      BY <1>1, <3>2
    <3> QED
      BY <3>1, <3>2, <3>3, <2>1, <1>3 DEF Ahead
  <2>4. /\ IsFiniteSet(Ahead(i) \ {c})
        /\ Cardinality(Ahead(i) \ {c}) = Cardinality(Ahead(i)) - 1
    BY <2>2, <1>7, FS_RemoveElement
  <2>5. /\ IsFiniteSet(Ahead(i)')
        /\ Cardinality(Ahead(i)') <= Cardinality(Ahead(i)) - 1
    BY <2>3, <2>4, FS_Subset
  <2>6. Cardinality(Ahead(i)') \in Nat /\ MaxProcess \in Nat
    BY <2>5, FS_CardinalityType, ProcessAssumption
  <2>7. wait_time[i] + Cardinality(Ahead(i)) <= MaxProcess - 2
    BY <1>4 DEF WaitInv
  <2>8. wait_time'[i] = wait_time[i] + 1
    BY <1>1, <1>4, <1>9
  <2> QED
    BY <2>1, <2>5, <2>6, <2>7, <2>8, <1>7
<1> QED
  BY <1>8, <1>9

\* The other parts of the invariant survive a decision.
LEMMA DecisionKeepsRest ==
  ASSUME TypeOK, UniquePids, BackstopInv, ActiveIsCurrent, next_pid # NoPid,
         NEW st \in [Slots -> Statuses], st[0] = status[0],
         \A i \in Slots : st[i] # "STOPPED" => st[i] = status[i],
         SwitchFromQueue(st),
         UNCHANGED <<pid, next_pid, clock_on, halted>>
  PROVE  (TypeOK /\ UniquePids /\ BackstopInv /\ ActiveInv)'
<1>0. \A i \in Slots : st[i] # "STOPPED" => Live(i)
  BY DEF Live
<1>1. PICK c \in Slots :
        /\ IsChosen(st, c) /\ st[c] # "STOPPED"
        /\ active_pid' = pid[c]
        /\ wait_time' \in [Slots -> Nat] /\ wait_time'[c] = 0
        /\ \A i \in Slots \ {c} :
             wait_time'[i] = wait_time[i] + (IF Runnable(st, i) THEN 1 ELSE 0)
        /\ status' \in [Slots -> Statuses]
        /\ \A i \in Slots : status'[i] = "STOPPED" <=> st[i] = "STOPPED"
        /\ status' = IF pid[c] = active_pid THEN st
                     ELSE [j \in Slots |->
                             IF j = c THEN "ACTIVE"
                             ELSE IF pid[j] = active_pid /\ st[j] = "ACTIVE"
                             THEN "WAITING"
                             ELSE st[j]]
  BY <1>0, Decision
<1>2. TypeOK'
  BY <1>1 DEF TypeOK
<1>3. \A i \in Slots : Live(i)' => Live(i)
  BY <1>1, <1>0 DEF Live
<1>4. UniquePids'
  BY <1>3 DEF UniquePids
<1>5. BackstopInv'
  <2>1. Live(0) /\ pid[0] = 0 /\ wait_time[0] = 0
    BY DEF BackstopInv
  <2>2. Live(0)' /\ ~Runnable(st, 0)
    BY <2>1, <1>1, SlotsFinite DEF Live, Runnable
  <2>3. wait_time'[0] = 0
    BY <2>1, <2>2, <1>1, SlotsFinite
  <2> QED
    BY <2>1, <2>2, <2>3, <1>3 DEF BackstopInv
<1>6. ActiveInv'
  <2>1. \A i \in Slots : Live(i)' <=> st[i] # "STOPPED"
    BY <1>1 DEF Live
  <2>2. \A i \in Slots : st[i] # "STOPPED" /\ pid[i] = pid[c] => i = c
    BY <1>0, <1>1 DEF UniquePids
  <2>3. \A i \in Slots : st[i] # "STOPPED" =>
          (st[i] = "ACTIVE" <=> pid[i] = active_pid)
    BY <1>0 DEF ActiveIsCurrent
  <2>4. ASSUME NEW i \in Slots
        PROVE  status'[i] = "ACTIVE" <=> (st[i] # "STOPPED" /\ pid[i] = pid[c])
    <3>1. CASE pid[c] = active_pid
      BY <3>1, <1>1, <2>3
    <3>2. CASE pid[c] # active_pid /\ i = c
      BY <3>2, <1>1
    <3>3. CASE pid[c] # active_pid /\ i # c
      BY <3>3, <1>1, <2>2, <2>3
    <3> QED
      BY <3>1, <3>2, <3>3
  <2>5. ActiveIsCurrent'
    BY <2>1, <2>4, <1>1 DEF ActiveIsCurrent
  <2>6. Live(c)' /\ pid'[c] = active_pid'
    BY <1>1, <2>1
  <2> QED
    BY <2>5, <2>6 DEF ActiveInv
<1> QED
  BY <1>2, <1>4, <1>5, <1>6

-----------------------------------------------------------------------------
(* init_process                                                            *)

LEMMA InitProcessKeepsIInv ==
  ASSUME IInv, InitProcess
  PROVE  IInv'
<1> USE DEF IInv
<1>1. PICK p \in PIDs, s \in Slots :
        /\ IsNextPid(p) /\ IsFreeSlot(s)
        /\ next_pid' = p
        /\ pid' = [pid EXCEPT ![s] = p]
        /\ status' = [status EXCEPT ![s] = "SPAWNED"]
        /\ wait_time' = [wait_time EXCEPT ![s] = 0]
        /\ UNCHANGED <<active_pid, clock_on, halted>>
  BY DEF InitProcess
<1>2. NoProcess(p) /\ ~Live(s)
  BY <1>1 DEF IsNextPid, IsFreeSlot
<1>3. TypeOK'
  BY <1>1 DEF TypeOK, Statuses
<1>4. /\ Live(s)' /\ pid'[s] = p /\ wait_time'[s] = 0 /\ status'[s] = "SPAWNED"
      /\ \A i \in Slots \ {s} : /\ Live(i)' <=> Live(i)
                                /\ pid'[i] = pid[i] /\ status'[i] = status[i]
                                /\ wait_time'[i] = wait_time[i]
  BY <1>1 DEF TypeOK, Live
<1>5. UniquePids'
  BY <1>2, <1>4 DEF UniquePids, NoProcess
<1>6. p = 0 <=> next_pid = NoPid
  <2>1. CASE next_pid = NoPid
    <3>1. NoProcess(0) /\ 0 \in PIDs
      BY <2>1, ProcessAssumption DEF BackstopInv, NoProcess, PIDs
    <3>2. PidDistance(p) <= PidDistance(0)
      BY <1>1, <3>1, <2>1 DEF IsNextPid
    <3>3. PidDistance(0) = 1 /\ PidDistance(p) = p + 1
      BY <2>1 DEF PidDistance, NoPid, PIDs
    <3> QED
      BY <2>1, <3>2, <3>3 DEF PIDs
  <2>2. CASE next_pid # NoPid
    BY <2>2, <1>1 DEF IsNextPid
  <2> QED
    BY <2>1, <2>2
<1>7. next_pid' # NoPid
  BY <1>1 DEF PIDs, NoPid
<1>8. BackstopInv'
  <2>1. CASE next_pid = NoPid
    <3>1. s = 0
      BY <2>1, <1>1, SlotsFinite DEF BackstopInv, IsFreeSlot, Slots
    <3> QED
      BY <3>1, <2>1, <1>4, <1>6, <1>7 DEF BackstopInv
  <2>2. CASE next_pid # NoPid
    <3>1. s # 0
      BY <2>2, <1>2 DEF BackstopInv
    <3> QED
      BY <3>1, <2>2, <1>4, <1>6, <1>7, SlotsFinite DEF BackstopInv
  <2> QED
    BY <2>1, <2>2
<1>9. ActiveInv'
  <2>1. p # active_pid
    BY <1>2 DEF ActiveInv, NoProcess, PIDs, NoPid
  <2>2. ActiveIsCurrent'
    BY <2>1, <1>1, <1>4 DEF ActiveInv, ActiveIsCurrent
  <2>3. active_pid # NoPid => \E i \in Slots : Live(i)' /\ pid'[i] = active_pid
    BY <1>2, <1>4 DEF ActiveInv
  <2> QED
    BY <2>2, <2>3, <1>1 DEF ActiveInv
<1>10. WaitInv'
  <2> SUFFICES ASSUME NEW i \in Slots, Runnable(status, i)'
               PROVE  wait_time'[i] + Cardinality(Ahead(i)') <= MaxProcess - 2
    BY DEF WaitInv
  <2>1. /\ i # 0 /\ Ahead(i)' \subseteq Slots \ {0, i}
        /\ \A j \in Slots \ {0} : Runnable(status, j)' <=> Live(j)'
    BY <1>3, <1>7, <1>8, SlotsFinite DEF BackstopInv, Runnable, Ahead, Live
  <2>2. Cardinality(Ahead(i)') \in Nat /\ Cardinality(Ahead(i)') <= MaxProcess - 2
    BY <2>1, OthersBounded
  <2>3. CASE wait_time'[i] = 0
    BY <2>2, <2>3
  <2>4. CASE wait_time'[i] # 0
    <3>1. i # s /\ wait_time'[i] = wait_time[i] /\ Runnable(status, i)
      BY <2>4, <1>4 DEF Runnable, Live
    <3>2. next_pid # NoPid
      BY <3>1 DEF BackstopInv, Runnable, Live
    <3>3. /\ IsFiniteSet(Ahead(i)) /\ Cardinality(Ahead(i)) \in Nat
      BY <3>1, <3>2, AheadBounded
    <3>4. Ahead(i)' \subseteq Ahead(i)
      <4> SUFFICES ASSUME NEW j \in Slots, j # i, Runnable(status, j)',
                          \/ wait_time'[j] > wait_time'[i]
                          \/ wait_time'[j] = wait_time'[i] /\ j < i
                   PROVE  j \in Ahead(i)
        BY DEF Ahead
      <4>1. wait_time'[i] \in Nat /\ wait_time'[j] \in Nat
        BY <1>3 DEF TypeOK
      <4>2. j # s
        BY <4>1, <2>4, <1>4
      <4>3. wait_time'[j] = wait_time[j] /\ Runnable(status, j)
        BY <4>2, <1>4 DEF Runnable, Live
      <4> QED
        BY <4>3, <3>1 DEF Ahead
    <3>5. Cardinality(Ahead(i)') <= Cardinality(Ahead(i))
      BY <3>3, <3>4, FS_Subset
    <3>6. wait_time[i] + Cardinality(Ahead(i)) <= MaxProcess - 2
      BY <3>1 DEF WaitInv
    <3>7. wait_time[i] \in Nat /\ MaxProcess \in Nat
      BY ProcessAssumption DEF TypeOK
    <3> QED
      BY <3>1, <3>3, <3>5, <3>6, <3>7, <2>2
  <2> QED
    BY <2>3, <2>4
<1> QED
  BY <1>3, <1>5, <1>8, <1>9, <1>10
-----------------------------------------------------------------------------
LEMMA InitIInv == Init => IInv
<1> SUFFICES ASSUME Init PROVE IInv
  OBVIOUS
<1>1. \A i \in Slots : ~Live(i)
  BY DEF Init, Live
<1>2. TypeOK
  <2>1. pid \in [Slots -> PIDs] /\ wait_time \in [Slots -> Nat]
    BY ProcessAssumption DEF Init, PIDs
  <2>2. status \in [Slots -> Statuses]
    BY DEF Init, Statuses
  <2>3. clock_on \in BOOLEAN /\ halted \in BOOLEAN
    BY DEF Init
  <2> QED
    BY <2>1, <2>2, <2>3 DEF Init, TypeOK
<1>3. UniquePids /\ WaitInv
  BY <1>1 DEF UniquePids, WaitInv, Runnable, Live
<1>4. BackstopInv /\ ActiveInv
  BY <1>1 DEF Init, BackstopInv, ActiveInv, ActiveIsCurrent, Live
<1> QED
  BY <1>2, <1>3, <1>4 DEF IInv

LEMMA NextIInv == IInv /\ [Next]_vars => IInv'
<1> SUFFICES ASSUME IInv, [Next]_vars PROVE IInv'
  OBVIOUS
<1>1. CASE InitProcess
  BY <1>1, InitProcessKeepsIInv
<1>2. CASE InitProcessFull /\ clock_on
  <2>1. PICK p \in PIDs : IsNextPid(p) /\ next_pid' = p
    BY <1>2 DEF InitProcessFull
  <2>2. /\ next_pid' # NoPid /\ next_pid # NoPid
        /\ UNCHANGED <<pid, status, wait_time, active_pid, clock_on>> /\ halted' = TRUE
    BY <1>2, <2>1 DEF InitProcessFull, PIDs, NoPid, IInv, BackstopInv
  <2>3. TypeOK'
    BY <2>1, <2>2 DEF IInv, TypeOK
  <2>4. (UniquePids /\ BackstopInv /\ ActiveInv)'
    BY <2>2 DEF IInv, UniquePids, BackstopInv, ActiveInv, ActiveIsCurrent, Live
  <2>5. WaitInv'
    BY <2>2 DEF IInv, WaitInv, Runnable, Ahead
  <2> QED
    BY <2>3, <2>4, <2>5 DEF IInv
<1>3. CASE StartClock
  <2>1. next_pid # NoPid
    BY <1>3, ProcessAssumption DEF StartClock, NoPid
  <2>2. TypeOK'
    BY <1>3 DEF StartClock, IInv, TypeOK
  <2>3. (UniquePids /\ BackstopInv /\ ActiveInv)'
    BY <1>3, <2>1 DEF StartClock, IInv, UniquePids, BackstopInv, ActiveInv,
                      ActiveIsCurrent, Live
  <2>4. WaitInv'
    BY <1>3 DEF StartClock, IInv, WaitInv, Runnable, Ahead
  <2> QED
    BY <2>2, <2>3, <2>4 DEF IInv
<1>4. CASE Tick
  <2>1. next_pid # NoPid /\ SwitchFromQueue(status)
        /\ UNCHANGED <<pid, next_pid, clock_on, halted>>
    BY <1>4 DEF Tick, IInv, BackstopInv
  <2>2. /\ status \in [Slots -> Statuses]
        /\ \A i \in Slots : status[i] # "STOPPED" => Live(i)
    BY DEF IInv, TypeOK, Live
  <2>3. (TypeOK /\ UniquePids /\ BackstopInv /\ ActiveInv)'
    BY <2>1, <2>2, DecisionKeepsRest DEF IInv, ActiveInv
  <2>4. WaitInv'
    BY <2>1, <2>2, DecisionKeepsWaitInv DEF IInv
  <2> QED
    BY <2>3, <2>4 DEF IInv
<1>5. CASE Exit
  <2>1. PICK k \in Slots : /\ IsProcess(active_pid, k)
                           /\ SwitchFromQueue([status EXCEPT ![k] = "STOPPED"])
    BY <1>5 DEF Exit
  <2> DEFINE st == [status EXCEPT ![k] = "STOPPED"]
  <2>2. /\ next_pid # NoPid /\ active_pid # 0
        /\ UNCHANGED <<pid, next_pid, clock_on, halted>>
    BY <1>5 DEF Exit, IInv, BackstopInv
  <2>3. k # 0
    BY <2>1, <2>2 DEF IInv, BackstopInv, IsProcess
  <2>4. /\ st \in [Slots -> Statuses] /\ st[0] = status[0]
        /\ \A i \in Slots : st[i] # "STOPPED" => st[i] = status[i] /\ Live(i)
    BY <2>3, SlotsFinite DEF IInv, TypeOK, Statuses, Live
  <2> HIDE DEF st
  <2>5. SwitchFromQueue(st)
    BY <2>1 DEF st
  <2>6. (TypeOK /\ UniquePids /\ BackstopInv /\ ActiveInv)'
    BY <2>2, <2>4, <2>5, DecisionKeepsRest DEF IInv, ActiveInv
  <2>7. WaitInv'
    BY <2>2, <2>4, <2>5, DecisionKeepsWaitInv DEF IInv
  <2> QED
    BY <2>6, <2>7 DEF IInv
<1>6. CASE UNCHANGED vars
  <2>1. TypeOK'
    BY <1>6 DEF vars, IInv, TypeOK
  <2>2. (UniquePids /\ BackstopInv /\ ActiveInv)'
    BY <1>6 DEF vars, IInv, UniquePids, BackstopInv, ActiveInv, ActiveIsCurrent, Live
  <2>3. WaitInv'
    BY <1>6 DEF vars, IInv, WaitInv, Runnable, Ahead
  <2> QED
    BY <2>1, <2>2, <2>3 DEF IInv
<1> QED
  BY <1>1, <1>2, <1>3, <1>4, <1>5, <1>6 DEF Next, Boot, Spawn

\* The inductive invariant holds in every reachable state.
THEOREM Invariance == Spec => []IInv
<1> QED
  BY InitIInv, NextIInv, PTL DEF Spec

\* Every variable of the process table and the scheduler keeps its type.
THEOREM TypeCorrect == Spec => []TypeOK
<1>1. IInv => TypeOK
  BY DEF IInv
<1> QED
  BY <1>1, Invariance, PTL

\* No two live processes share a PID, however often the PIDs wrap around.
THEOREM PidsAreUnique == Spec => []UniquePids
<1>1. IInv => UniquePids
  BY DEF IInv
<1> QED
  BY <1>1, Invariance, PTL

\* The backstop stays alive in slot 0, alone with PID 0, its wait at 0.
THEOREM BackstopStays == Spec => []BackstopAlive
<1>1. IInv => BackstopAlive
  BY DEF IInv, BackstopInv, BackstopAlive
<1> QED
  BY <1>1, Invariance, PTL

\* The ACTIVE process is the one active_pid names.
THEOREM CurrentIsActive == Spec => []ActiveIsCurrent
<1>1. IInv => ActiveIsCurrent
  BY DEF IInv, ActiveInv
<1> QED
  BY <1>1, Invariance, PTL

\* No process waits for more than MaxProcess - 2 decisions.
THEOREM WaitIsBounded == Spec => []BoundedWait
<1>1. ASSUME IInv PROVE BoundedWait
  <2> SUFFICES ASSUME NEW i \in Slots, Runnable(status, i)
               PROVE  wait_time[i] <= MaxProcess - 2
    BY DEF BoundedWait
  <2>1. next_pid # NoPid
    BY <1>1 DEF IInv, BackstopInv, Runnable, Live
  <2>2. Cardinality(Ahead(i)) \in Nat
    BY <1>1, <2>1, AheadBounded DEF IInv
  <2>3. wait_time[i] + Cardinality(Ahead(i)) <= MaxProcess - 2
    BY <1>1 DEF IInv, WaitInv
  <2>4. wait_time[i] \in Nat /\ MaxProcess \in Nat
    BY <1>1, ProcessAssumption DEF IInv, TypeOK
  <2> QED
    BY <2>2, <2>3, <2>4
<1> QED
  BY <1>1, Invariance, PTL

\* The scheduler turns to the backstop only when nobody else is runnable.
LEMMA DecisionBackstopLast ==
  ASSUME TypeOK, BackstopInv, next_pid # NoPid,
         NEW st \in [Slots -> Statuses], st[0] = status[0],
         \A i \in Slots : st[i] # "STOPPED" => Live(i),
         SwitchFromQueue(st), pid' = pid, active_pid' = 0
  PROVE  \A i \in Slots : ~Runnable(status', i)
<1>1. PICK c \in Slots :
        /\ IsChosen(st, c) /\ active_pid' = pid[c]
        /\ \A i \in Slots : status'[i] = "STOPPED" <=> st[i] = "STOPPED"
  BY Decision
<1>2. ~Runnable(st, c)
  BY <1>1 DEF Runnable
<1>3. \A j \in Slots : ~Runnable(st, j)
  BY <1>1, <1>2, ChosenIsAhead
<1> QED
  BY <1>1, <1>3 DEF Runnable

\* process.c:6: the backstop is switched to only when there is no other
\* process.
THEOREM BackstopIsLast == Spec => BackstopLast
<1>1. ASSUME IInv, [Next]_vars, active_pid' = 0, active_pid # 0
      PROVE  \A i \in Slots : ~Runnable(status', i)
  <2>1. CASE Tick
    <3>1. next_pid # NoPid /\ SwitchFromQueue(status) /\ pid' = pid
      BY <2>1, <1>1 DEF Tick, IInv, BackstopInv
    <3>2. /\ status \in [Slots -> Statuses]
          /\ \A i \in Slots : status[i] # "STOPPED" => Live(i)
      BY <1>1 DEF IInv, TypeOK, Live
    <3> QED
      BY <1>1, <3>1, <3>2, DecisionBackstopLast DEF IInv
  <2>2. CASE Exit
    <3>1. PICK k \in Slots : /\ IsProcess(active_pid, k)
                             /\ SwitchFromQueue([status EXCEPT ![k] = "STOPPED"])
      BY <2>2 DEF Exit
    <3> DEFINE st == [status EXCEPT ![k] = "STOPPED"]
    <3>2. next_pid # NoPid /\ pid' = pid
      BY <2>2, <1>1 DEF Exit, IInv, BackstopInv
    <3>3. k # 0
      BY <3>1, <3>2, <1>1 DEF IInv, BackstopInv, IsProcess
    <3>4. /\ st \in [Slots -> Statuses] /\ st[0] = status[0]
          /\ \A i \in Slots : st[i] # "STOPPED" => Live(i)
      BY <1>1, <3>3, SlotsFinite DEF IInv, TypeOK, Statuses, Live
    <3> HIDE DEF st
    <3>5. SwitchFromQueue(st)
      BY <3>1 DEF st
    <3> QED
      BY <1>1, <3>2, <3>4, <3>5, DecisionBackstopLast DEF IInv
  <2>3. Tick \/ Exit
    BY <1>1 DEF Next, vars, Boot, Spawn, InitProcess, InitProcessFull, StartClock
  <2> QED
    BY <2>1, <2>2, <2>3
<1>2. IInv /\ [Next]_vars =>
        [active_pid' = 0 /\ active_pid # 0 => \A i \in Slots : ~Runnable(status', i)]_vars
  BY <1>1
<1> QED
  BY <1>2, Invariance, PTL DEF Spec, BackstopLast
=============================================================================
