----------------------------- MODULE TaskProofs -----------------------------
(***************************************************************************)
(* The task table and the scheduler, for every size of the table: a killed *)
(* task stays dead, a sleeping task is not called early, and the scan of   *)
(* task_yield is a round robin.  The last two need a clock that has not    *)
(* wrapped round, which NoEarlyWake and RoundRobin are about.              *)
(* Then the keyboard ring that the interrupt handler shares with the shell *)
(* task, for every size of the ring: kbd_get returns the stored characters *)
(* in order and a character is refused only by a full ring, wherever the   *)
(* handler interrupts kbd_get.                                             *)
(***************************************************************************)
EXTENDS Task, Keyboard, TLAPS

\* The clock does not come to its 32 bits' end: 497 days of interrupts.
ClockFits == MaxTicks < TickMod

\* Nor does a wake time computed before that.
WakeTimesFit == \A n \in Sleeps : MaxTicks + n < TickMod

TypeOK ==
    /\ tasks \in [Slots -> [id : Nat, state : States, function : BOOLEAN, wake_time : Nat]]
    /\ next_task_id \in Nat \ {0} /\ current_task_id \in Slots /\ start \in Slots
    /\ timer_ticks \in 0 .. TickMod - 1 /\ elapsed \in 0 .. MaxTicks
    /\ pc \in {"create_shell", "loop", "scan", "task"}
    /\ due \in [Slots -> Nat] /\ killed \subseteq Nat /\ ahead \in [Slots -> SUBSET Slots]

\* Slot 0 keeps the idle task, which has no function.  While it is alive a scan
\* ends there at the latest and does not come back to the slot it began with.
IdleSlot ==
    /\ tasks[0].id = 0 /\ ~tasks[0].function /\ tasks[0].wake_time = 0
    /\ tasks[0].state \in {"READY", "DEAD"}
    /\ Live(0) /\ pc = "scan" => start <= current_task_id

\* An id names one slot, and the slot of a live task has one.
IdsUnique ==
    /\ \A i \in Slots : tasks[i].id < next_task_id
    /\ \A i, j \in Slots : tasks[i].id = tasks[j].id /\ tasks[i].id # 0 => i = j
    /\ \A i \in Slots \ {0} : Live(i) => tasks[i].id # 0
    /\ killed \subseteq 0 .. next_task_id - 1

\* The slot a scan began with is ready or the idle task's, so that calling it at
\* the end of the scan brings nobody back to life.
StartReady ==
    /\ pc \in {"create_shell", "loop"} => current_task_id = 0 \/ tasks[current_task_id].state = "READY"
    /\ pc = "scan" => start = 0 \/ tasks[start].state = "READY"

\* Nobody else has killed the task of the slot whose function is running, so
\* that its return, which marks the slot ready, undoes only its own kill.
CalledNotKilled ==
    pc = "task" => /\ current_task_id # 0 /\ tasks[current_task_id].id # 0
                   /\ tasks[current_task_id].id \notin killed

TableInv == TypeOK /\ IdleSlot /\ IdsUnique /\ StartReady /\ CalledNotKilled /\ KilledStaysDead

-----------------------------------------------------------------------------

\* The slot after the current one, without the modulus.
LEMMA NextSlotIs ==
    ASSUME current_task_id \in Slots
    PROVE  NextSlot = IF current_task_id + 1 = MaxTasks THEN 0 ELSE current_task_id + 1
<1>1. MaxTasks \in Nat /\ MaxTasks > 1 /\ current_task_id \in 0 .. MaxTasks - 1
  BY TaskAssumption DEF Slots
<1>2. CASE current_task_id + 1 = MaxTasks
  BY <1>1, <1>2 DEF NextSlot
<1>3. CASE current_task_id + 1 # MaxTasks
  BY <1>1, <1>3 DEF NextSlot
<1>4. QED
  BY <1>2, <1>3

\* The next slot of a scan is one of the table.
LEMMA NextSlotIn ==
    ASSUME TableInv
    PROVE  NextSlot \in Slots
<1>1. MaxTasks \in Nat /\ MaxTasks > 1 /\ current_task_id \in 0 .. MaxTasks - 1
  BY TaskAssumption DEF TableInv, TypeOK, Slots
<1>2. QED
  BY <1>1, NextSlotIs DEF Slots

\* A scan that finds nothing goes on, without coming round while the idle task
\* is alive, or it calls the slot it began with.
LEMMA MissEffect ==
    ASSUME TableInv, ScanMiss
    PROVE  /\ NextSlot \in Slots /\ current_task_id' = NextSlot
           /\ Live(0) => NextSlot > start /\ UNCHANGED <<tasks, pc>>
           /\ \/ UNCHANGED <<tasks, pc>> /\ NextSlot # start
              \/ /\ NextSlot = start /\ ~Live(0) /\ NextSlot # 0 /\ tasks[NextSlot].state = "READY"
                 /\ tasks' = [tasks EXCEPT ![NextSlot] = [tasks[NextSlot] EXCEPT !.state = "RUNNING"]]
                 /\ pc' = "task"
              \/ /\ NextSlot = start /\ ~Live(0) /\ tasks' = tasks /\ pc' = "loop"
                 /\ NextSlot = 0 \/ tasks[NextSlot].state = "READY"
<1> DEFINE n == NextSlot
<1>1. /\ MaxTasks \in Nat /\ current_task_id \in 0 .. MaxTasks - 1 /\ start \in 0 .. MaxTasks - 1
      /\ 0 \in Slots /\ pc = "scan" /\ (start = 0 \/ tasks[start].state = "READY")
      /\ Live(0) => start <= current_task_id
      /\ tasks \in [Slots -> [id : Nat, state : States, function : BOOLEAN, wake_time : Nat]]
  BY TaskAssumption DEF TableInv, TypeOK, IdleSlot, StartReady, ScanMiss, Slots
<1>2. n \in Slots /\ current_task_id' = n
  BY NextSlotIn DEF ScanMiss
<1>3. ASSUME Live(0) PROVE n > start /\ n # start
  <2>1. CanRun(0)
    BY <1>3 DEF TableInv, IdleSlot, CanRun, Live
  <2>2. n # 0
    BY <2>1 DEF ScanMiss
  <2>3. n = current_task_id + 1
    BY <1>1, <2>2, NextSlotIs DEF Slots
  <2>4. QED
    BY <1>1, <1>3, <2>3
<1>4. CASE n # start
  BY <1>2, <1>3, <1>4 DEF ScanMiss
<1>5. CASE n = start
  <2>1. ~Live(0) /\ Execute(tasks, n)
    BY <1>3, <1>5 DEF ScanMiss
  <2>2. CASE tasks[n].function
    <3>1. n # 0
      BY <2>2 DEF TableInv, IdleSlot
    <3>2. tasks' = [tasks EXCEPT ![n].state = "RUNNING"] /\ pc' = "task"
      BY <2>1, <2>2 DEF Execute
    <3>3. QED
      BY <1>1, <1>2, <1>5, <2>1, <3>1, <3>2
  <2>3. CASE ~tasks[n].function
    <3>1. tasks' = tasks /\ pc' = "loop"
      BY <2>1, <2>3 DEF Execute
    <3>2. QED
      BY <1>1, <1>2, <1>5, <2>1, <3>1
  <2>4. QED
    BY <2>2, <2>3
<1>6. QED
  BY <1>4, <1>5

\* A scan that finds a task calls it, or comes back if it is the idle task.
LEMMA HitEffect ==
    ASSUME TableInv, ScanHit
    PROVE  /\ NextSlot \in Slots /\ current_task_id' = NextSlot /\ tasks[NextSlot].state = "READY"
           /\ \A j \in Slots : j # NextSlot => tasks'[j] = tasks[j]
           /\ \/ /\ tasks' = [tasks EXCEPT ![NextSlot] =
                               [tasks[NextSlot] EXCEPT !.wake_time = 0, !.state = "RUNNING"]]
                 /\ NextSlot # 0 /\ pc' = "task"
              \/ tasks' = [tasks EXCEPT ![NextSlot] = [tasks[NextSlot] EXCEPT !.wake_time = 0]]
                 /\ pc' = "loop"
<1> DEFINE n == NextSlot
<1>2. n \in Slots /\ tasks[n].state = "READY"
  BY NextSlotIn DEF ScanHit, CanRun
<1>3. tasks \in [Slots -> [id : Nat, state : States, function : BOOLEAN, wake_time : Nat]]
  BY DEF TableInv, TypeOK
<1>4. CASE tasks[n].function
  <2>1. n # 0
    BY <1>4 DEF TableInv, IdleSlot
  <2>2. tasks' = [[tasks EXCEPT ![n].wake_time = 0] EXCEPT ![n].state = "RUNNING"] /\ pc' = "task"
    BY <1>2, <1>3, <1>4 DEF ScanHit, Execute
  <2>3. tasks' = [tasks EXCEPT ![n] = [tasks[n] EXCEPT !.wake_time = 0, !.state = "RUNNING"]]
    BY <1>2, <1>3, <2>2
  <2>4. \A j \in Slots : j # n => tasks'[j] = tasks[j]
    BY <1>3, <2>3
  <2>5. QED
    BY <1>2, <2>1, <2>2, <2>3, <2>4 DEF ScanHit
<1>5. CASE ~tasks[n].function
  <2>1. tasks' = [tasks EXCEPT ![n].wake_time = 0] /\ pc' = "loop"
    BY <1>2, <1>3, <1>5 DEF ScanHit, Execute
  <2>2. tasks' = [tasks EXCEPT ![n] = [tasks[n] EXCEPT !.wake_time = 0]]
    BY <1>2, <1>3, <2>1
  <2>3. \A j \in Slots : j # n => tasks'[j] = tasks[j]
    BY <1>3, <2>2
  <2>4. QED
    BY <1>2, <2>1, <2>2, <2>3 DEF ScanHit
<1>6. QED
  BY <1>4, <1>5

\* One slot is marked dead.  Its id is the only one of its kind, or it is the
\* idle task's; the kill is recorded unless the slot's own function is running.
LEMMA KillEffect ==
    ASSUME TableInv, CallKill
    PROVE  \E i \in Slots :
              /\ tasks' = [tasks EXCEPT ![i].state = "DEAD"]
              /\ killed' = IF i = current_task_id THEN killed ELSE killed \cup {tasks[i].id}
              /\ tasks[i].id = 0 => i = 0
<1>1. PICK id \in 0 .. next_task_id - 1 : task_kill(id)
  BY DEF CallKill
<1>2. PICK i \in Slots : /\ tasks[i].id = id /\ \A j \in 0 .. i - 1 : tasks[j].id # id
                         /\ tasks' = [tasks EXCEPT ![i].state = "DEAD"]
                         /\ killed' = IF i = current_task_id THEN killed ELSE killed \cup {id}
  BY <1>1 DEF task_kill
<1>3. ASSUME tasks[i].id = 0 PROVE i = 0
  <2>1. tasks[0].id = 0 /\ i \in Nat
    BY TaskAssumption DEF TableInv, IdleSlot, Slots
  <2>2. i # 0 => 0 \in 0 .. i - 1
    BY <2>1
  <2>3. QED
    BY <1>2, <1>3, <2>1, <2>2
<1>4. QED
  BY <1>2, <1>3

\* task_create fills one dead slot with a fresh id, or does nothing.
LEMMA CreateEffect ==
    ASSUME TableInv, task_create
    PROVE  \/ \E i \in Slots \ {0} :
                 /\ ~Live(i)
                 /\ tasks' = [tasks EXCEPT ![i] = [id |-> next_task_id, state |-> "READY",
                                                   function |-> TRUE, wake_time |-> 0]]
                 /\ due' = [due EXCEPT ![i] = 0] /\ ahead' = [ahead EXCEPT ![i] = {}]
                 /\ next_task_id' = next_task_id + 1
           \/ UNCHANGED <<tasks, next_task_id, due, ahead>>
BY DEF task_create

-----------------------------------------------------------------------------

LEMMA TableInit == Init => TableInv
<1> SUFFICES ASSUME Init PROVE TableInv
  OBVIOUS
<1>1. /\ MaxTasks \in Nat /\ MaxTasks > 1 /\ TickMod \in Nat /\ TickMod > 1 /\ MaxTicks \in Nat
      /\ 0 \in Slots
  BY TaskAssumption DEF Slots
<1>2. /\ tasks[0] = [id |-> 0, state |-> "READY", function |-> FALSE, wake_time |-> 0]
      /\ \A i \in Slots \ {0} :
            tasks[i] = [id |-> 0, state |-> "DEAD", function |-> FALSE, wake_time |-> 0]
  BY <1>1 DEF Init, DeadTask
<1>3. tasks \in [Slots -> [id : Nat, state : States, function : BOOLEAN, wake_time : Nat]]
  BY <1>1 DEF Init, DeadTask, States
<1>4. TypeOK
  BY <1>1, <1>3 DEF Init, TypeOK
<1>5. IdleSlot
  BY <1>2 DEF Init, IdleSlot
<1>6. IdsUnique
  BY <1>1, <1>2 DEF Init, IdsUnique, Live
<1>7. StartReady /\ CalledNotKilled /\ KilledStaysDead
  BY DEF Init, StartReady, CalledNotKilled, KilledStaysDead
<1>8. QED
  BY <1>4, <1>5, <1>6, <1>7 DEF TableInv

\* A new task takes an id that no slot and no kill has seen.
LEMMA CreateStep ==
    ASSUME TableInv, task_create, pc \in {"create_shell", "task"},
           pc' = pc \/ (pc = "create_shell" /\ pc' = "loop"),
           UNCHANGED <<current_task_id, clock, start, killed>>
    PROVE  TableInv'
<1>1. CASE UNCHANGED <<tasks, next_task_id, due, ahead>>
  BY <1>1 DEF TableInv, TypeOK, IdleSlot, IdsUnique, StartReady, CalledNotKilled, KilledStaysDead,
              Live, clock
<1>2. ASSUME NEW i \in Slots \ {0}, ~Live(i),
             tasks' = [tasks EXCEPT ![i] = [id |-> next_task_id, state |-> "READY",
                                            function |-> TRUE, wake_time |-> 0]],
             due' = [due EXCEPT ![i] = 0], ahead' = [ahead EXCEPT ![i] = {}],
             next_task_id' = next_task_id + 1
      PROVE  TableInv'
  <2>1. /\ tasks'[i] = [id |-> next_task_id, state |-> "READY", function |-> TRUE, wake_time |-> 0]
        /\ \A j \in Slots : j # i => tasks'[j] = tasks[j]
    BY <1>2 DEF TableInv, TypeOK
  <2>2. /\ next_task_id \in Nat \ {0} /\ next_task_id' = next_task_id + 1
        /\ \A j \in Slots : tasks[j].id \in Nat
    BY <1>2 DEF TableInv, TypeOK
  <2>3. TypeOK'
    <3>1. tasks' \in [Slots -> [id : Nat, state : States, function : BOOLEAN, wake_time : Nat]]
      BY <1>2 DEF TableInv, TypeOK, States
    <3>2. due' \in [Slots -> Nat] /\ ahead' \in [Slots -> SUBSET Slots]
      BY <1>2 DEF TableInv, TypeOK
    <3>3. QED
      BY <3>1, <3>2, <2>2 DEF TableInv, TypeOK, clock
  <2>4. IdleSlot'
    <3>1. 0 \in Slots /\ tasks'[0] = tasks[0] /\ pc' # "scan"
      BY <2>1, TaskAssumption DEF Slots
    <3>2. QED
      BY <3>1 DEF TableInv, IdleSlot
  <2>5. IdsUnique'
    <3>1. \A j \in Slots : tasks'[j].id < next_task_id'
      BY <2>1, <2>2 DEF TableInv, IdsUnique
    <3>2. \A j, k \in Slots : tasks'[j].id = tasks'[k].id /\ tasks'[j].id # 0 => j = k
      BY <2>1, <2>2 DEF TableInv, IdsUnique
    <3>3. \A j \in Slots \ {0} : tasks'[j].state # "DEAD" => tasks'[j].id # 0
      BY <2>1, <2>2 DEF TableInv, IdsUnique, Live
    <3>4. killed' \subseteq 0 .. next_task_id' - 1
      BY <2>2 DEF TableInv, IdsUnique
    <3>5. QED
      BY <3>1, <3>2, <3>3, <3>4 DEF IdsUnique, Live
  <2>6. StartReady'
    BY <2>1 DEF TableInv, TypeOK, StartReady
  <2>7. next_task_id \notin killed
    BY <2>2 DEF TableInv, IdsUnique
  <2>8. KilledStaysDead'
    BY <2>1, <2>7 DEF TableInv, KilledStaysDead, Live
  <2>9. CalledNotKilled'
    BY <2>1, <2>2, <2>7 DEF TableInv, TypeOK, CalledNotKilled
  <2>10. QED
    BY <2>3, <2>4, <2>5, <2>6, <2>8, <2>9 DEF TableInv
<1>3. QED
  BY <1>1, <1>2, CreateEffect

\* Only the state of slots that keep their id changes, and a slot comes to life
\* only if nobody is known to have killed its task: what the invariant needs of
\* such a step.
LEMMA StateStep ==
    ASSUME TableInv, TypeOK', IdleSlot', StartReady', CalledNotKilled', UNCHANGED <<next_task_id, killed>>,
           \A j \in Slots : /\ tasks'[j].id = tasks[j].id
                            /\ Live(j) \/ tasks'[j].state = "DEAD"
                                  \/ (tasks[j].id # 0 /\ tasks[j].id \notin killed)
    PROVE  TableInv'
<1>1. IdsUnique'
  BY DEF TableInv, IdsUnique, Live
<1>2. KilledStaysDead'
  BY DEF TableInv, KilledStaysDead, Live
<1>3. QED
  BY <1>1, <1>2 DEF TableInv

LEMMA TableNext == TableInv /\ [Next]_vars => TableInv'
<1> SUFFICES ASSUME TableInv, [Next]_vars PROVE TableInv'
  OBVIOUS
<1>0. /\ MaxTasks \in Nat /\ MaxTasks > 1 /\ TickMod \in Nat /\ TickMod > 1 /\ MaxTicks \in Nat
      /\ Sleeps \subseteq Nat /\ 0 \in Slots
  BY TaskAssumption DEF Slots
<1>01. tasks \in [Slots -> [id : Nat, state : States, function : BOOLEAN, wake_time : Nat]]
  BY DEF TableInv, TypeOK
<1>02. \A j \in Slots \ {0} : tasks[j].state = "READY" => tasks[j].id # 0 /\ tasks[j].id \notin killed
  BY DEF TableInv, IdsUnique, KilledStaysDead, Live
<1>1. CASE CreateShell
  BY <1>1, CreateStep DEF CreateShell
<1>2. CASE MainLoop
  BY <1>2, <1>0 DEF MainLoop, EnterYield, TableInv, TypeOK, IdleSlot, IdsUnique, StartReady,
                    CalledNotKilled, KilledStaysDead, Live, clock, hist, Slots
<1>3. CASE ScanHit
  <2> DEFINE n == NextSlot
  <2>1. /\ n \in Slots /\ current_task_id' = n /\ tasks[n].state = "READY"
        /\ \A j \in Slots : j # n => tasks'[j] = tasks[j]
        /\ UNCHANGED <<next_task_id, killed>>
    BY <1>3, HitEffect DEF ScanHit
  <2>2. \/ /\ tasks' = [tasks EXCEPT ![n] = [tasks[n] EXCEPT !.wake_time = 0, !.state = "RUNNING"]]
           /\ n # 0 /\ pc' = "task"
        \/ tasks' = [tasks EXCEPT ![n] = [tasks[n] EXCEPT !.wake_time = 0]] /\ pc' = "loop"
    BY <1>3, HitEffect
  <2>5. ahead' \in [Slots -> SUBSET Slots]
    BY <1>3, <2>1 DEF ScanHit, Chosen, TableInv, TypeOK
  <2> HIDE DEF n
  <2>3. tasks' \in [Slots -> [id : Nat, state : States, function : BOOLEAN, wake_time : Nat]]
    <3>1. CASE tasks' = [tasks EXCEPT ![n] = [tasks[n] EXCEPT !.wake_time = 0, !.state = "RUNNING"]]
      BY <1>01, <2>1, <3>1 DEF States
    <3>2. CASE tasks' = [tasks EXCEPT ![n] = [tasks[n] EXCEPT !.wake_time = 0]]
      BY <1>01, <2>1, <3>2 DEF States
    <3>3. QED
      BY <2>2, <3>1, <3>2
  <2>4. /\ \A j \in Slots : tasks'[j].id = tasks[j].id
        /\ pc' = "task" => n # 0
        /\ pc' = "loop" => tasks'[n].state = "READY"
        /\ pc' \in {"task", "loop"}
    BY <1>01, <2>1, <2>2
  <2>6. TypeOK'
    BY <1>3, <2>1, <2>3, <2>4, <2>5 DEF ScanHit, TableInv, TypeOK, clock
  <2>7. IdleSlot'
    <3>1. CASE n = 0
      <4>1. tasks' = [tasks EXCEPT ![0] = [tasks[0] EXCEPT !.wake_time = 0]]
        BY <2>2, <3>1
      <4>2. tasks'[0] = [tasks[0] EXCEPT !.wake_time = 0]
        BY <1>0, <1>01, <4>1
      <4>3. QED
        BY <1>0, <1>01, <2>4, <4>2 DEF TableInv, IdleSlot
    <3>2. CASE n # 0
      BY <1>0, <2>1, <2>4, <3>2 DEF TableInv, IdleSlot
    <3>3. QED
      BY <3>1, <3>2
  <2>8. StartReady' /\ CalledNotKilled'
    BY <1>02, <2>1, <2>4 DEF StartReady, CalledNotKilled
  <2>9. QED
    BY <2>1, <2>4, <2>6, <2>7, <2>8, StateStep DEF Live
<1>4. CASE ScanMiss
  <2> DEFINE n == NextSlot
  <2>1. /\ n \in Slots /\ current_task_id' = n /\ (Live(0) => n > start)
        /\ UNCHANGED <<next_task_id, clock, start, due, killed, ahead>> /\ pc = "scan"
    BY <1>4, MissEffect DEF ScanMiss, hist
  <2>2. \/ UNCHANGED <<tasks, pc>>
        \/ /\ n # 0 /\ ~Live(0) /\ tasks[n].state = "READY" /\ pc' = "task"
           /\ tasks' = [tasks EXCEPT ![n] = [tasks[n] EXCEPT !.state = "RUNNING"]]
        \/ tasks' = tasks /\ pc' = "loop" /\ (n = 0 \/ tasks[n].state = "READY")
    BY <1>4, MissEffect
  <2>3. start \in Int /\ n \in Int
    BY <1>0, <2>1 DEF TableInv, TypeOK, Slots
  <2> HIDE DEF n
  <2>4. CASE UNCHANGED <<tasks, pc>>
    BY <2>1, <2>3, <2>4 DEF TableInv, TypeOK, IdleSlot, IdsUnique, StartReady, CalledNotKilled,
                            KilledStaysDead, Live, clock
  <2>5. CASE tasks' = tasks /\ pc' = "loop" /\ (n = 0 \/ tasks[n].state = "READY")
    BY <2>1, <2>5 DEF TableInv, TypeOK, IdleSlot, IdsUnique, StartReady, CalledNotKilled,
                      KilledStaysDead, Live, clock
  <2>6. CASE /\ n # 0 /\ ~Live(0) /\ tasks[n].state = "READY" /\ pc' = "task"
             /\ tasks' = [tasks EXCEPT ![n] = [tasks[n] EXCEPT !.state = "RUNNING"]]
    <3>1. /\ tasks' \in [Slots -> [id : Nat, state : States, function : BOOLEAN, wake_time : Nat]]
          /\ \A j \in Slots : tasks'[j].id = tasks[j].id /\ (j # n => tasks'[j] = tasks[j])
      BY <1>01, <2>1, <2>6 DEF States
    <3>2. TypeOK'
      BY <2>1, <2>6, <3>1 DEF TableInv, TypeOK, clock
    <3>3. IdleSlot'
      BY <1>0, <2>6, <3>1 DEF TableInv, IdleSlot
    <3>4. StartReady' /\ CalledNotKilled'
      BY <1>02, <2>1, <2>6, <3>1 DEF StartReady, CalledNotKilled
    <3>5. QED
      BY <2>1, <2>6, <3>1, <3>2, <3>3, <3>4, StateStep DEF Live
  <2>7. QED
    BY <2>2, <2>4, <2>5, <2>6
<1>5. CASE Return
  <2>1. /\ pc = "task" /\ pc' = "loop" /\ current_task_id # 0 /\ current_task_id \in Slots
        /\ tasks[current_task_id].id # 0 /\ tasks[current_task_id].id \notin killed
        /\ tasks' = [tasks EXCEPT ![current_task_id].state = "READY"]
        /\ UNCHANGED <<next_task_id, current_task_id, clock, start, due, killed, ahead>>
    BY <1>5 DEF Return, TableInv, TypeOK, CalledNotKilled, hist
  <2>2. tasks' \in [Slots -> [id : Nat, state : States, function : BOOLEAN, wake_time : Nat]]
    BY <1>01, <2>1 DEF States
  <2>3. TypeOK'
    BY <2>1, <2>2 DEF TableInv, TypeOK, clock
  <2>4. /\ \A j \in Slots : tasks'[j].id = tasks[j].id /\ (j # current_task_id => tasks'[j] = tasks[j])
        /\ tasks'[current_task_id].state = "READY"
    BY <1>0, <1>01, <2>1
  <2>5. IdleSlot' /\ StartReady' /\ CalledNotKilled'
    BY <1>0, <2>1, <2>4 DEF TableInv, IdleSlot, StartReady, CalledNotKilled
  <2>6. QED
    BY <2>1, <2>3, <2>4, <2>5, StateStep DEF Live
<1>6. CASE CallCreate
  BY <1>6, CreateStep DEF CallCreate
<1>7. CASE CallKill
  <2>1. PICK i \in Slots :
              /\ tasks' = [tasks EXCEPT ![i].state = "DEAD"]
              /\ killed' = IF i = current_task_id THEN killed ELSE killed \cup {tasks[i].id}
              /\ tasks[i].id = 0 => i = 0
    BY <1>7, KillEffect
  <2>2. /\ pc' = pc /\ pc = "task" /\ current_task_id \in Slots /\ current_task_id # 0
        /\ tasks[current_task_id].id # 0 /\ tasks[current_task_id].id \notin killed
        /\ UNCHANGED <<next_task_id, current_task_id, clock, start, due, ahead>>
    BY <1>7 DEF CallKill, TableInv, TypeOK, CalledNotKilled
  <2>3. /\ tasks'[i] = [tasks[i] EXCEPT !.state = "DEAD"]
        /\ \A j \in Slots : j # i => tasks'[j] = tasks[j]
    BY <1>01, <2>1
  <2>31. \A j \in Slots : tasks'[j].id = tasks[j].id
    BY <1>01, <2>3
  <2>32. tasks'[i].state = "DEAD"
    BY <1>01, <2>3
  <2>4. TypeOK'
    <3>1. tasks' \in [Slots -> [id : Nat, state : States, function : BOOLEAN, wake_time : Nat]]
      BY <1>01, <2>1 DEF States
    <3>2. killed' \subseteq Nat
      BY <1>01, <2>1 DEF TableInv, TypeOK
    <3>3. QED
      BY <2>2, <3>1, <3>2 DEF TableInv, TypeOK, clock
  <2>5. IdleSlot'
    <3>1. CASE i = 0
      BY <1>0, <1>01, <2>2, <2>3, <3>1 DEF TableInv, IdleSlot
    <3>2. CASE i # 0
      BY <1>0, <2>2, <2>3, <3>2 DEF TableInv, IdleSlot
    <3>3. QED
      BY <3>1, <3>2
  <2>6. IdsUnique'
    <3>1. tasks[i].id \in 0 .. next_task_id - 1
      BY <1>01, <2>1 DEF TableInv, TypeOK, IdsUnique
    <3>2. killed' \subseteq 0 .. next_task_id' - 1
      BY <2>1, <2>2, <3>1 DEF TableInv, IdsUnique
    <3>3. \A j \in Slots \ {0} : tasks'[j].state # "DEAD" => tasks'[j].id # 0
      BY <2>3, <2>31, <2>32 DEF TableInv, IdsUnique, Live
    <3>4. QED
      BY <2>2, <2>31, <3>2, <3>3 DEF TableInv, IdsUnique, Live
  <2>7. KilledStaysDead'
    <3>1. SUFFICES ASSUME NEW j \in Slots, tasks[j].id \in killed' PROVE tasks'[j].state = "DEAD"
      BY <2>31 DEF KilledStaysDead, Live
    <3>2. CASE j = i
      BY <2>32, <3>2
    <3>3. CASE j # i /\ tasks[j].id \in killed
      BY <2>3, <3>3 DEF TableInv, KilledStaysDead, Live
    <3>4. CASE j # i /\ tasks[j].id = tasks[i].id
      <4>1. tasks[i].id = 0 /\ j # 0
        BY <2>1, <3>4 DEF TableInv, IdsUnique
      <4>2. QED
        BY <2>3, <3>4, <4>1 DEF TableInv, IdsUnique, Live
    <3>5. QED
      BY <2>1, <3>1, <3>2, <3>3, <3>4
  <2>8. CalledNotKilled'
    <3>1. i # current_task_id => tasks[i].id # tasks[current_task_id].id
      BY <2>2 DEF TableInv, IdsUnique
    <3>2. QED
      BY <2>1, <2>2, <2>31, <3>1 DEF CalledNotKilled
  <2>9. StartReady'
    BY <2>2 DEF StartReady
  <2>10. QED
    BY <2>4, <2>5, <2>6, <2>7, <2>8, <2>9 DEF TableInv
<1>8. CASE CallSleep
  <2>1. PICK k \in Sleeps : task_sleep(k)
    BY <1>8 DEF CallSleep
  <2> DEFINE c == current_task_id
             w == (timer_ticks + k) % TickMod
  <2>2. /\ c \in Slots /\ c # 0 /\ tasks[c].id # 0 /\ tasks[c].id \notin killed
        /\ UNCHANGED <<next_task_id, current_task_id, clock, pc, start, killed, ahead>> /\ pc = "task"
    BY <1>8 DEF CallSleep, TableInv, TypeOK, CalledNotKilled
  <2>3. k \in Nat /\ w \in Nat
    BY <1>0 DEF TableInv, TypeOK
  <2>4. /\ tasks' = [tasks EXCEPT ![c].wake_time = w, ![c].state = "WAITING"]
        /\ due' = [due EXCEPT ![c] = k]
    BY <2>1 DEF task_sleep
  <2> HIDE DEF c, w
  <2>5. /\ tasks' \in [Slots -> [id : Nat, state : States, function : BOOLEAN, wake_time : Nat]]
        /\ due' \in [Slots -> Nat]
    BY <1>01, <2>2, <2>3, <2>4 DEF States, TableInv, TypeOK
  <2>6. /\ tasks'[c].state = "WAITING" /\ tasks'[c].id = tasks[c].id
        /\ \A j \in Slots : j # c => tasks'[j] = tasks[j]
    BY <1>01, <2>2, <2>3, <2>4
  <2>7. TypeOK'
    BY <2>2, <2>5 DEF TableInv, TypeOK, clock
  <2>8. IdleSlot' /\ StartReady' /\ CalledNotKilled'
    BY <1>0, <2>2, <2>6 DEF TableInv, IdleSlot, StartReady, CalledNotKilled, c
  <2>9. QED
    BY <2>2, <2>6, <2>7, <2>8, StateStep DEF Live
<1>9. CASE Tick
  <2>1. UNCHANGED <<tasks, next_task_id, current_task_id, pc, start, killed, ahead>>
    BY <1>9 DEF Tick
  <2>2. TypeOK'
    <3>1. timer_ticks' \in 0 .. TickMod - 1
      BY <1>0, <1>9 DEF Tick, TableInv, TypeOK
    <3>2. elapsed' \in 0 .. MaxTicks
      BY <1>0, <1>9 DEF Tick, TableInv, TypeOK
    <3>3. due' \in [Slots -> Nat]
      BY <1>9 DEF Tick, TableInv, TypeOK
    <3>4. QED
      BY <2>1, <3>1, <3>2, <3>3 DEF TableInv, TypeOK
  <2>3. QED
    BY <2>1, <2>2 DEF TableInv, IdleSlot, IdsUnique, StartReady, CalledNotKilled, KilledStaysDead, Live
<1>10. CASE UNCHANGED vars
  BY <1>10 DEF TableInv, TypeOK, IdleSlot, IdsUnique, StartReady, CalledNotKilled, KilledStaysDead,
               Live, vars, clock, hist
<1>11. QED
  BY <1>1, <1>2, <1>3, <1>4, <1>5, <1>6, <1>7, <1>8, <1>9, <1>10 DEF Next, task_yield

\* The table stays well formed in every state the scheduler reaches.
THEOREM TableInvariant == Spec => []TableInv
<1>1. QED
  BY TableInit, TableNext, PTL DEF Spec

\* A task that the function of another slot killed is dead for ever, whatever ids
\* and slots are handed out afterwards, whoever kills the idle task or itself.
THEOREM KilledTasksStayDead == Spec => []KilledStaysDead
<1>1. TableInv => KilledStaysDead
  BY DEF TableInv
<1>2. QED
  BY <1>1, TableInvariant, PTL

-----------------------------------------------------------------------------
(* Sleeping.                                                               *)

\* A task still to sleep some interrupts carries the tick they end at.
WakeInv ==
    /\ timer_ticks = elapsed
    /\ \A i \in Slots : due[i] > 0 => tasks[i].wake_time = timer_ticks + due[i]

LEMMA WakeInit == Init => WakeInv
BY DEF Init, WakeInv

LEMMA WakeNext ==
    ASSUME WakeTimesFit, ClockFits
    PROVE  TableInv /\ WakeInv /\ [Next]_vars => WakeInv'
<1> SUFFICES ASSUME TableInv, WakeInv, [Next]_vars PROVE WakeInv'
  OBVIOUS
<1>0. /\ TickMod \in Nat /\ MaxTicks \in Nat /\ Sleeps \subseteq Nat
      /\ timer_ticks \in Nat /\ elapsed \in 0 .. MaxTicks /\ timer_ticks = elapsed
      /\ due \in [Slots -> Nat]
      /\ tasks \in [Slots -> [id : Nat, state : States, function : BOOLEAN, wake_time : Nat]]
  BY TaskAssumption DEF TableInv, TypeOK, WakeInv
<1>1. ASSUME task_create, UNCHANGED clock PROVE WakeInv'
  <2>1. CASE UNCHANGED <<tasks, next_task_id, due, ahead>>
    BY <1>1, <2>1 DEF WakeInv, clock
  <2>2. ASSUME NEW i \in Slots \ {0},
               tasks' = [tasks EXCEPT ![i] = [id |-> next_task_id, state |-> "READY",
                                              function |-> TRUE, wake_time |-> 0]],
               due' = [due EXCEPT ![i] = 0]
        PROVE  WakeInv'
    <3>1. /\ due'[i] = 0
          /\ \A j \in Slots : j # i => tasks'[j] = tasks[j] /\ due'[j] = due[j]
      BY <1>0, <2>2
    <3>2. QED
      BY <1>1, <3>1 DEF WakeInv, clock
  <2>3. QED
    BY <1>1, <2>1, <2>2, CreateEffect
<1>2. CASE ScanHit
  <2> DEFINE n == NextSlot
  <2>1. /\ n \in Slots /\ UNCHANGED <<timer_ticks, elapsed, due>>
        /\ \A j \in Slots : j # n => tasks'[j] = tasks[j]
    BY <1>2, HitEffect DEF ScanHit, clock
  <2>2. tasks[n].wake_time = 0 \/ timer_ticks >= tasks[n].wake_time
    BY <1>2 DEF ScanHit, CanRun
  <2> HIDE DEF n
  <2>3. due[n] = 0
    BY <1>0, <2>1, <2>2 DEF WakeInv
  <2>4. QED
    BY <2>1, <2>3 DEF WakeInv
<1>3. CASE ScanMiss
  <2> DEFINE n == NextSlot
  <2>1. /\ n \in Slots /\ UNCHANGED <<timer_ticks, elapsed, due>>
        /\ \/ tasks' = tasks
           \/ tasks' = [tasks EXCEPT ![n] = [tasks[n] EXCEPT !.state = "RUNNING"]]
    BY <1>3, MissEffect DEF ScanMiss, clock, hist
  <2> HIDE DEF n
  <2>2. \A j \in Slots : tasks'[j].wake_time = tasks[j].wake_time
    BY <1>0, <2>1
  <2>3. QED
    BY <2>1, <2>2 DEF WakeInv
<1>4. CASE MainLoop
  BY <1>4 DEF MainLoop, EnterYield, WakeInv, clock, hist
<1>5. CASE Return
  <2>1. /\ \A j \in Slots : tasks'[j].wake_time = tasks[j].wake_time
        /\ UNCHANGED <<timer_ticks, elapsed, due>>
    BY <1>0, <1>5 DEF Return, clock, hist
  <2>2. QED
    BY <2>1 DEF WakeInv
<1>6. CASE CallKill
  <2>1. PICK i \in Slots : tasks' = [tasks EXCEPT ![i].state = "DEAD"]
    BY <1>6, KillEffect
  <2>2. /\ \A j \in Slots : tasks'[j].wake_time = tasks[j].wake_time
        /\ UNCHANGED <<timer_ticks, elapsed, due>>
    BY <1>0, <1>6, <2>1 DEF CallKill, clock
  <2>3. QED
    BY <2>2 DEF WakeInv
<1>7. CASE CallSleep
  <2>1. PICK k \in Sleeps : task_sleep(k)
    BY <1>7 DEF CallSleep
  <2> DEFINE c == current_task_id
             w == (timer_ticks + k) % TickMod
  <2>2. k \in Nat /\ c \in Slots /\ UNCHANGED <<timer_ticks, elapsed>>
    BY <1>0, <1>7 DEF CallSleep, clock, TableInv, TypeOK
  <2>3. w = timer_ticks + k
    <3>1. timer_ticks + k \in 0 .. TickMod - 1
      BY <1>0, <2>2, WakeTimesFit DEF WakeTimesFit
    <3>2. QED
      BY <1>0, <3>1
  <2>4. /\ tasks' = [tasks EXCEPT ![c].wake_time = w, ![c].state = "WAITING"]
        /\ due' = [due EXCEPT ![c] = k]
    BY <2>1 DEF task_sleep
  <2> HIDE DEF c, w
  <2>5. /\ tasks'[c].wake_time = w /\ due'[c] = k
        /\ \A j \in Slots : j # c => tasks'[j] = tasks[j] /\ due'[j] = due[j]
    BY <1>0, <2>2, <2>4
  <2>6. QED
    BY <2>2, <2>3, <2>5 DEF WakeInv
<1>8. CASE Tick
  <2>1. timer_ticks' = timer_ticks + 1 /\ elapsed' = elapsed + 1
    <3>1. timer_ticks + 1 \in 0 .. TickMod - 1
      BY <1>0, <1>8, ClockFits DEF Tick, ClockFits
    <3>2. (timer_ticks + 1) % TickMod = timer_ticks + 1
      BY <1>0, <3>1
    <3>3. QED
      BY <1>8, <3>2 DEF Tick
  <2>2. /\ \A j \in Slots : due'[j] = IF due[j] = 0 THEN 0 ELSE due[j] - 1
        /\ tasks' = tasks
    BY <1>8 DEF Tick
  <2>3. QED
    BY <1>0, <2>1, <2>2 DEF WakeInv
<1>9. CASE UNCHANGED vars
  BY <1>9 DEF WakeInv, vars, clock, hist
<1>10. QED
  BY <1>1, <1>2, <1>3, <1>4, <1>5, <1>6, <1>7, <1>8, <1>9
  DEF Next, task_yield, CreateShell, CallCreate

\* Only the scan calls a task, and it calls none that has interrupts to sleep
\* unless it has come round, which takes a dead idle task.
LEMMA WakeStep ==
    ASSUME TableInv, WakeInv, [Next]_vars, NEW i \in Slots,
           tasks[i].state # "RUNNING", tasks'[i].state = "RUNNING"
    PROVE  due[i] = 0 \/ (~Live(0) /\ i = start)
<1>0. /\ timer_ticks \in Nat /\ due \in [Slots -> Nat]
      /\ tasks \in [Slots -> [id : Nat, state : States, function : BOOLEAN, wake_time : Nat]]
  BY DEF TableInv, TypeOK
<1>1. ~task_create
  <2>1. SUFFICES ASSUME task_create PROVE FALSE
    OBVIOUS
  <2>2. PICK j \in Slots : tasks' = [tasks EXCEPT ![j] = [id |-> next_task_id, state |-> "READY",
                                              function |-> TRUE, wake_time |-> 0]]
    BY <2>1, CreateEffect
  <2>3. QED
    BY <1>0, <2>2
<1>2. CASE ScanHit
  <2>1. NextSlot \in Slots /\ (i # NextSlot => tasks'[i] = tasks[i])
    BY <1>2, HitEffect
  <2>2. i = NextSlot
    BY <2>1
  <2>3. tasks[i].wake_time = 0 \/ timer_ticks >= tasks[i].wake_time
    BY <1>2, <2>2 DEF ScanHit, CanRun
  <2>4. QED
    BY <1>0, <2>3 DEF WakeInv
<1>3. CASE ScanMiss
  <2> DEFINE n == NextSlot
  <2>1. \/ tasks' = tasks
        \/ /\ n = start /\ ~Live(0) /\ n \in Slots
           /\ tasks' = [tasks EXCEPT ![n] = [tasks[n] EXCEPT !.state = "RUNNING"]]
    BY <1>3, MissEffect
  <2> HIDE DEF n
  <2>2. i = n /\ n = start /\ ~Live(0)
    BY <1>0, <2>1
  <2>3. QED
    BY <2>2
<1>4. ~Return
  BY <1>0 DEF Return
<1>5. ~CallKill
  <2>1. SUFFICES ASSUME CallKill PROVE FALSE
    OBVIOUS
  <2>2. PICK j \in Slots : tasks' = [tasks EXCEPT ![j].state = "DEAD"]
    BY <2>1, KillEffect
  <2>3. QED
    BY <1>0, <2>2
<1>6. ~CallSleep
  <2>1. SUFFICES ASSUME CallSleep PROVE FALSE
    OBVIOUS
  <2>2. PICK w, k : tasks' = [tasks EXCEPT ![current_task_id].wake_time = w,
                                           ![current_task_id].state = "WAITING"]
    BY <2>1 DEF CallSleep, task_sleep
  <2>3. current_task_id \in Slots
    BY DEF TableInv, TypeOK
  <2>4. QED
    BY <1>0, <2>2, <2>3
<1>7. ~(MainLoop \/ Tick \/ UNCHANGED vars)
  BY DEF MainLoop, EnterYield, Tick, vars
<1>8. QED
  BY <1>1, <1>2, <1>3, <1>4, <1>5, <1>6, <1>7 DEF Next, task_yield, CreateShell, CallCreate

\* A sleeping task is not called before its interrupts have passed, as long as
\* the clock and the wake times stay below 2^32; the case of a dead idle task is
\* the one the property names.
THEOREM SleepersNotWokenEarly ==
    ASSUME WakeTimesFit, ClockFits
    PROVE  Spec => NoEarlyWake
<1>1. TableInv /\ WakeInv /\ [Next]_vars
        => [\A i \in Slots : tasks[i].state # "RUNNING" /\ tasks'[i].state = "RUNNING"
                 => due[i] = 0 \/ (~Live(0) /\ i = start)]_vars
  BY WakeStep
<1>2. TableInv /\ WakeInv /\ [Next]_vars => WakeInv'
  BY WakeNext
<1>3. QED
  BY <1>1, <1>2, WakeInit, TableInvariant, PTL DEF Spec, NoEarlyWake

-----------------------------------------------------------------------------
(* The round robin.                                                        *)

\* Slot a lies behind slot s on the way round to slot c.
Between(s, a, c) == IF s <= c THEN s < a /\ a <= c ELSE a > s \/ a <= c

\* A task that was passed over can still run, and the scan has gone from its
\* slot over the ones chosen instead of it without coming back to it.
AheadInv ==
    /\ \A s \in Slots : Live(s) /\ ahead[s] # {} =>
          CanRun(s) /\ \A a \in ahead[s] : Between(s, a, current_task_id)
    /\ pc = "task" => ahead[current_task_id] = {}

\* The scan goes on to a slot that is neither s nor one it passed since s.
LEMMA BetweenStep ==
    ASSUME current_task_id \in Slots, NEW s \in Slots, s # NextSlot
    PROVE  /\ NextSlot \in Slots /\ ~Between(s, NextSlot, current_task_id)
           /\ Between(s, NextSlot, NextSlot)
           /\ \A a \in Slots : Between(s, a, current_task_id) => Between(s, a, NextSlot)
<1> DEFINE c == current_task_id
           n == NextSlot
<1>1. MaxTasks \in Nat /\ c \in 0 .. MaxTasks - 1 /\ s \in 0 .. MaxTasks - 1
  BY TaskAssumption DEF Slots
<1>2. n = (IF c + 1 = MaxTasks THEN 0 ELSE c + 1) /\ s # n
  BY NextSlotIs
<1> HIDE DEF c, n
<1>3. /\ n \in 0 .. MaxTasks - 1 /\ ~Between(s, n, c) /\ Between(s, n, n)
      /\ \A a \in 0 .. MaxTasks - 1 : Between(s, a, c) => Between(s, a, n)
  BY <1>1, <1>2 DEF Between
<1>4. QED
  BY <1>3 DEF c, n, Slots

LEMMA AheadInit == Init => AheadInv
BY DEF Init, AheadInv

LEMMA AheadNext ==
    ASSUME ClockFits
    PROVE  TableInv /\ timer_ticks = elapsed /\ AheadInv /\ [Next]_vars => AheadInv'
<1> SUFFICES ASSUME TableInv, timer_ticks = elapsed, AheadInv, [Next]_vars PROVE AheadInv'
  OBVIOUS
<1>0. /\ TickMod \in Nat /\ MaxTicks \in Nat
      /\ timer_ticks \in Nat /\ elapsed \in 0 .. MaxTicks /\ current_task_id \in Slots
      /\ ahead \in [Slots -> SUBSET Slots]
      /\ tasks \in [Slots -> [id : Nat, state : States, function : BOOLEAN, wake_time : Nat]]
  BY TaskAssumption DEF TableInv, TypeOK
<1>1. ASSUME task_create, UNCHANGED <<clock, current_task_id>>, pc' = "task" => pc = "task"
      PROVE  AheadInv'
  <2>1. CASE UNCHANGED <<tasks, next_task_id, due, ahead>>
    BY <1>1, <2>1 DEF AheadInv, CanRun, Live, clock
  <2>2. ASSUME NEW i \in Slots \ {0},
               tasks' = [tasks EXCEPT ![i] = [id |-> next_task_id, state |-> "READY",
                                              function |-> TRUE, wake_time |-> 0]],
               ahead' = [ahead EXCEPT ![i] = {}]
        PROVE  AheadInv'
    <3>1. /\ ahead'[i] = {}
          /\ \A j \in Slots : j # i => tasks'[j] = tasks[j] /\ ahead'[j] = ahead[j]
      BY <1>0, <2>2
    <3>2. QED
      BY <1>0, <1>1, <3>1 DEF AheadInv, CanRun, Live, clock
  <2>3. QED
    BY <1>1, <2>1, <2>2, CreateEffect
<1>2. CASE ScanHit
  <2>1. /\ NextSlot \in Slots /\ current_task_id' = NextSlot /\ UNCHANGED timer_ticks
        /\ \A j \in Slots : j # NextSlot => tasks'[j] = tasks[j]
    BY <1>2, HitEffect DEF ScanHit, clock
  <2>2. \A s \in Slots : ahead'[s] = IF s # NextSlot /\ CanRun(s) THEN ahead[s] \cup {NextSlot} ELSE {}
    BY <1>2 DEF ScanHit, Chosen
  <2>3. ASSUME NEW s \in Slots, ahead'[s] # {}
        PROVE  CanRun(s)' /\ \A a \in ahead'[s] : Between(s, a, NextSlot)
    <3>1. s # NextSlot /\ CanRun(s) /\ ahead'[s] = ahead[s] \cup {NextSlot}
      BY <2>2, <2>3
    <3>2. CanRun(s)' /\ Live(s)
      BY <2>1, <3>1 DEF CanRun, Live
    <3>3. \A a \in ahead[s] : a \in Slots /\ Between(s, a, current_task_id)
      BY <1>0, <3>2 DEF AheadInv
    <3>4. QED
      BY <1>0, <3>1, <3>2, <3>3, BetweenStep
  <2>4. ahead'[NextSlot] = {}
    BY <2>1, <2>2
  <2>5. QED
    BY <2>1, <2>3, <2>4 DEF AheadInv
<1>3. CASE ScanMiss
  <2>1. /\ current_task_id' = NextSlot /\ UNCHANGED <<timer_ticks, ahead>> /\ ~CanRun(NextSlot)
        /\ NextSlot \in Slots /\ pc = "scan"
    BY <1>3, MissEffect DEF ScanMiss, clock, hist
  <2>2. ASSUME NEW s \in Slots, Live(s), ahead[s] # {}
        PROVE  CanRun(s) /\ \A a \in ahead[s] : Between(s, a, NextSlot)
    <3>1. CanRun(s) /\ s # NextSlot /\ \A a \in ahead[s] : a \in Slots /\ Between(s, a, current_task_id)
      BY <1>0, <2>1, <2>2 DEF AheadInv
    <3>2. QED
      BY <1>0, <3>1, BetweenStep
  <2>3. \/ tasks' = tasks /\ pc' # "task"
        \/ /\ tasks[NextSlot].state = "READY"
           /\ tasks' = [tasks EXCEPT ![NextSlot] = [tasks[NextSlot] EXCEPT !.state = "RUNNING"]]
    BY <1>3, <2>1, MissEffect
  <2>4. CASE tasks' = tasks /\ pc' # "task"
    BY <2>1, <2>2, <2>4 DEF AheadInv, CanRun, Live
  <2>5. CASE /\ tasks[NextSlot].state = "READY"
             /\ tasks' = [tasks EXCEPT ![NextSlot] = [tasks[NextSlot] EXCEPT !.state = "RUNNING"]]
    <3>1. ahead[NextSlot] = {}
      BY <2>1, <2>5 DEF AheadInv, Live
    <3>2. \A j \in Slots : j # NextSlot => tasks'[j] = tasks[j]
      BY <1>0, <2>1, <2>5
    <3>3. QED
      BY <2>1, <2>2, <3>1, <3>2 DEF AheadInv, CanRun, Live
  <2>6. QED
    BY <2>3, <2>4, <2>5
<1>4. CASE MainLoop
  BY <1>4 DEF MainLoop, EnterYield, AheadInv, CanRun, Live, clock, hist
<1>5. ASSUME pc = "task", UNCHANGED <<current_task_id, timer_ticks, ahead>>,
             \A j \in Slots : j # current_task_id => tasks'[j] = tasks[j]
      PROVE  AheadInv'
  <2>1. ahead[current_task_id] = {}
    BY <1>5 DEF AheadInv
  <2>2. QED
    BY <1>5, <2>1 DEF AheadInv, CanRun, Live
<1>6. CASE Return
  <2>1. \A j \in Slots : j # current_task_id => tasks'[j] = tasks[j]
    BY <1>0, <1>6 DEF Return
  <2>2. QED
    BY <1>5, <1>6, <2>1 DEF Return, clock, hist
<1>7. CASE CallKill
  <2>1. PICK i \in Slots : tasks' = [tasks EXCEPT ![i].state = "DEAD"]
    BY <1>7, KillEffect
  <2>2. /\ \A j \in Slots : j # i => tasks'[j] = tasks[j]
        /\ tasks'[i].state = "DEAD" /\ UNCHANGED <<timer_ticks, current_task_id, ahead, pc>>
    BY <1>0, <1>7, <2>1 DEF CallKill, clock
  <2>3. QED
    BY <2>2 DEF AheadInv, CanRun, Live
<1>8. CASE CallSleep
  <2>1. PICK w : tasks' = [tasks EXCEPT ![current_task_id].wake_time = w,
                                        ![current_task_id].state = "WAITING"]
    BY <1>8 DEF CallSleep, task_sleep
  <2>2. \A j \in Slots : j # current_task_id => tasks'[j] = tasks[j]
    BY <1>0, <2>1
  <2>3. QED
    BY <1>5, <1>8, <2>2 DEF CallSleep, clock
<1>9. CASE Tick
  <2>1. timer_ticks' = timer_ticks + 1
    <3>1. timer_ticks + 1 \in 0 .. TickMod - 1
      BY <1>0, <1>9, ClockFits DEF Tick, ClockFits
    <3>2. (timer_ticks + 1) % TickMod = timer_ticks + 1
      BY <1>0, <3>1
    <3>3. QED
      BY <1>9, <3>2 DEF Tick
  <2>2. UNCHANGED <<tasks, current_task_id, ahead, pc>>
    BY <1>9 DEF Tick
  <2>3. \A s \in Slots : CanRun(s) => CanRun(s)'
    <3>1. \A s \in Slots : tasks[s].wake_time \in Nat
      BY <1>0
    <3>2. QED
      BY <1>0, <2>1, <2>2, <3>1 DEF CanRun
  <2>4. QED
    BY <2>2, <2>3 DEF AheadInv, Live
<1>10. CASE UNCHANGED vars
  BY <1>10 DEF AheadInv, CanRun, Live, vars, clock, hist
<1>11. QED
  BY <1>1, <1>2, <1>3, <1>4, <1>6, <1>7, <1>8, <1>9, <1>10
  DEF Next, task_yield, CreateShell, CallCreate

\* As long as the clock has not wrapped, the scan calls no task twice while
\* another that could run all along waits: the scan starts behind the slot it
\* last called and stops at the first task that can run.
THEOREM ScanIsRoundRobin ==
    ASSUME ClockFits
    PROVE  Spec => RoundRobin
<1>1. ASSUME TableInv, AheadInv, ScanHit, NEW s \in Slots, s # NextSlot, CanRun(s)
      PROVE  NextSlot \notin ahead[s]
  <2>1. current_task_id \in Slots /\ Live(s)
    BY <1>1 DEF TableInv, TypeOK, CanRun, Live
  <2>2. QED
    BY <1>1, <2>1, BetweenStep DEF AheadInv
<1>2. TableInv /\ AheadInv /\ [Next]_vars
        => [ScanHit => \A s \in Slots : s # NextSlot /\ CanRun(s) => NextSlot \notin ahead[s]]_vars
  BY <1>1
<1>3. Init => timer_ticks = elapsed
  BY DEF Init
<1>4. TableInv /\ timer_ticks = elapsed /\ [Next]_vars => (timer_ticks = elapsed)'
  <2> SUFFICES ASSUME TableInv, timer_ticks = elapsed, [Next]_vars PROVE timer_ticks' = elapsed'
    OBVIOUS
  <2>1. CASE Tick
    <3>1. TickMod \in Nat /\ timer_ticks + 1 \in 0 .. TickMod - 1
      BY TaskAssumption, ClockFits, <2>1 DEF TableInv, TypeOK, Tick, ClockFits
    <3>2. (timer_ticks + 1) % TickMod = timer_ticks + 1
      BY <3>1
    <3>3. QED
      BY <2>1, <3>2 DEF Tick
  <2>2. CASE UNCHANGED clock
    BY <2>2 DEF clock
  <2>3. QED
    BY <2>1, <2>2 DEF Next, vars, clock, CreateShell, MainLoop, EnterYield, task_yield, ScanHit,
                      ScanMiss, Return, CallCreate, CallKill, CallSleep
<1>5. TableInv /\ timer_ticks = elapsed /\ AheadInv /\ [Next]_vars => AheadInv'
  BY AheadNext
<1>6. QED
  BY <1>2, <1>3, <1>4, <1>5, AheadInit, TableInvariant, PTL DEF Spec, RoundRobin

-----------------------------------------------------------------------------
(* The keyboard ring.                                                      *)

\* Slots from the tail to slot i, going round.
Dist(i) == IF i >= kbd_tail THEN i - kbd_tail ELSE i - kbd_tail + RingSize

\* The slots from the tail to the head hold, in order, what was stored and not
\* yet returned, and kbd_get works on the first of them.
RingInv ==
    /\ Dist(kbd_head) = Len(accepted) - Len(delivered)
    /\ \A i \in 0 .. RingSize - 1 :
          Dist(i) < Dist(kbd_head) => kbd_buffer[i] = accepted[Len(delivered) + 1 + Dist(i)]
    /\ get_pc # "idle" => kbd_head # kbd_tail
    /\ get_pc = "advance" => get_c = kbd_buffer[kbd_tail]

RingIInv == RingTypeOK /\ InOrder /\ RingInv

-----------------------------------------------------------------------------

\* The next slot of the ring, without the modulus.
LEMMA NextRingSlot ==
    ASSUME NEW i \in 0 .. RingSize - 1
    PROVE  (i + 1) % RingSize = IF i + 1 = RingSize THEN 0 ELSE i + 1
<1>1. CASE i + 1 = RingSize
  BY <1>1, RingAssumption
<1>2. CASE i + 1 # RingSize
  BY <1>2, RingAssumption
<1>3. QED
  BY <1>1, <1>2

\* The handler puts only characters into the ring.
LEMMA TranslateType ==
    ASSUME NEW key, Translate(key) # None
    PROVE  Translate(key) \in Chars
<1>1. Table(key, shift_pressed) \in {"a", "A", "c", "C", "1", "!", "0"}
  BY DEF Table, None
<1>2. QED
  BY <1>1 DEF Translate, Chars, None, ETX

-----------------------------------------------------------------------------

LEMMA RingInit == KbdInit => RingIInv
<1> SUFFICES ASSUME KbdInit PROVE RingIInv
  OBVIOUS
<1>1. RingTypeOK
  <2>1. kbd_buffer \in [0 .. RingSize - 1 -> Chars \cup {None}]
    BY DEF KbdInit
  <2>2. kbd_head \in 0 .. RingSize - 1 /\ kbd_tail \in 0 .. RingSize - 1
    BY RingAssumption DEF KbdInit
  <2>3. accepted \in Seq(Chars) /\ delivered \in Seq(Chars \cup {None})
    BY DEF KbdInit
  <2>4. QED
    BY <2>1, <2>2, <2>3 DEF KbdInit, RingTypeOK
<1>2. InOrder
  BY DEF KbdInit, InOrder
<1>3. RingInv
  BY RingAssumption DEF KbdInit, RingInv, Dist
<1>4. QED
  BY <1>1, <1>2, <1>3 DEF RingIInv

\* A stored character lands behind the last one waiting.
LEMMA PutInv ==
    ASSUME RingIInv, NEW ch \in Chars, kbd_put(ch),
           UNCHANGED <<kbd_tail, mods, get_pc, get_c, held, delivered>>
    PROVE  RingIInv'
<1> DEFINE next == (kbd_head + 1) % RingSize
<1>1. /\ kbd_head \in 0 .. RingSize - 1 /\ kbd_tail \in 0 .. RingSize - 1
      /\ RingSize \in Nat /\ RingSize > 1
      /\ accepted \in Seq(Chars) /\ delivered \in Seq(Chars \cup {None})
      /\ Len(accepted) \in Nat /\ Len(delivered) \in Nat
  BY RingAssumption DEF RingIInv, RingTypeOK
<1>2. next = IF kbd_head + 1 = RingSize THEN 0 ELSE kbd_head + 1
  BY <1>1, NextRingSlot
<1>3. CASE next = kbd_tail
  <2>1. UNCHANGED <<kbd_buffer, kbd_head, kbd_tail, accepted, delivered, get_pc, get_c>> /\ dropped' = TRUE
    BY <1>3 DEF kbd_put
  <2>2. QED
    BY <2>1 DEF RingIInv, RingTypeOK, InOrder, RingInv, Dist, mods
<1>4. CASE next # kbd_tail
  <2>1. /\ kbd_buffer' = [kbd_buffer EXCEPT ![kbd_head] = ch]
        /\ kbd_head' = next
        /\ accepted' = Append(accepted, ch) /\ dropped' = FALSE
    BY <1>4 DEF kbd_put
  <2>2. /\ Len(accepted') = Len(accepted) + 1
        /\ accepted'[Len(accepted) + 1] = ch
        /\ \A j \in 1 .. Len(accepted) : accepted'[j] = accepted[j]
        /\ accepted' \in Seq(Chars)
    BY <1>1, <2>1
  <2>0. kbd_head' = IF kbd_head + 1 = RingSize THEN 0 ELSE kbd_head + 1
    BY <1>2, <2>1
  <2>3. RingTypeOK'
    <3>1. kbd_head' \in 0 .. RingSize - 1
      BY <1>1, <2>0
    <3>2. kbd_buffer' \in [0 .. RingSize - 1 -> Chars \cup {None}]
      BY <2>1 DEF RingIInv, RingTypeOK
    <3>3. QED
      BY <2>1, <2>2, <3>1, <3>2 DEF RingIInv, RingTypeOK, mods
  <2>4. InOrder'
    <3>1. delivered' = delivered
      OBVIOUS
    <3>2. /\ Len(delivered) <= Len(accepted)
          /\ \A i \in 1 .. Len(delivered) : delivered[i] = accepted[i]
      BY DEF RingIInv, InOrder
    <3>3. Len(delivered) <= Len(accepted')
      BY <1>1, <2>2, <3>2
    <3>4. ASSUME NEW i \in 1 .. Len(delivered) PROVE delivered[i] = accepted'[i]
      <4>1. i \in 1 .. Len(accepted)
        BY <1>1, <3>2
      <4>2. QED
        BY <4>1, <2>2, <3>2
    <3>5. QED
      BY <3>1, <3>3, <3>4 DEF InOrder
  <2>5. Dist(kbd_head)' = Dist(kbd_head) + 1
    <3>1. kbd_head' # kbd_tail
      BY <1>4, <2>1
    <3>2. QED
      BY <1>1, <2>0, <3>1 DEF Dist
  <2>6. ASSUME NEW i \in 0 .. RingSize - 1, Dist(i)' < Dist(kbd_head)'
        PROVE  kbd_buffer'[i] = accepted'[Len(delivered') + 1 + Dist(i)']
    <3>0. Dist(i)' = Dist(i)
      BY DEF Dist
    <3>1. CASE i = kbd_head
      <4>1. kbd_buffer'[i] = ch
        BY <1>1, <2>1, <3>1 DEF RingIInv, RingTypeOK
      <4>2. Len(delivered) + 1 + Dist(i) = Len(accepted) + 1
        BY <1>1, <3>1 DEF RingIInv, RingInv, Dist
      <4>3. QED
        BY <4>1, <4>2, <3>0, <2>2
    <3>2. CASE i # kbd_head
      <4>1. Dist(i) < Dist(kbd_head) /\ Dist(i) \in Nat
        BY <1>1, <2>5, <2>6, <3>0, <3>2 DEF Dist
      <4>2. kbd_buffer'[i] = kbd_buffer[i]
        BY <1>1, <2>1, <3>2 DEF RingIInv, RingTypeOK
      <4>3. Len(delivered) + 1 + Dist(i) \in 1 .. Len(accepted)
        BY <1>1, <4>1 DEF RingIInv, RingInv
      <4>4. QED
        BY <4>1, <4>2, <4>3, <3>0, <2>2 DEF RingIInv, RingInv
    <3>3. QED
      BY <3>1, <3>2
  <2>7. (get_pc # "idle" => kbd_head # kbd_tail)'
    BY <1>4, <2>1
  <2>8. (get_pc = "advance" => get_c = kbd_buffer[kbd_tail])'
    <3>1. SUFFICES ASSUME get_pc = "advance" PROVE get_c = kbd_buffer'[kbd_tail]
      OBVIOUS
    <3>2. kbd_head # kbd_tail /\ get_c = kbd_buffer[kbd_tail]
      BY <3>1 DEF RingIInv, RingInv
    <3>3. QED
      BY <3>2, <1>1, <2>1 DEF RingIInv, RingTypeOK
  <2>9. Dist(kbd_head)' = Len(accepted') - Len(delivered')
    BY <1>1, <2>2, <2>5 DEF RingIInv, RingInv
  <2>10. QED
    BY <2>3, <2>4, <2>6, <2>7, <2>8, <2>9 DEF RingIInv, RingInv
<1>5. QED
  BY <1>3, <1>4

\* The character returned is the oldest one waiting.
LEMMA AdvanceInv ==
    ASSUME RingIInv, GetAdvance
    PROVE  RingIInv'
<1>1. /\ kbd_head \in 0 .. RingSize - 1 /\ kbd_tail \in 0 .. RingSize - 1
      /\ RingSize \in Nat /\ RingSize > 1
      /\ accepted \in Seq(Chars) /\ delivered \in Seq(Chars \cup {None})
      /\ Len(accepted) \in Nat /\ Len(delivered) \in Nat
  BY RingAssumption DEF RingIInv, RingTypeOK
<1>2. /\ kbd_tail' = IF kbd_tail + 1 = RingSize THEN 0 ELSE kbd_tail + 1
      /\ delivered' = Append(delivered, get_c)
      /\ get_pc = "advance" /\ get_pc' = "idle" /\ get_c' = None
      /\ UNCHANGED <<kbd_buffer, kbd_head, mods, held, accepted, dropped>>
  BY <1>1, NextRingSlot DEF GetAdvance
<1>3. kbd_head # kbd_tail /\ get_c = kbd_buffer[kbd_tail] /\ get_c \in Chars \cup {None}
  BY <1>2 DEF RingIInv, RingInv, RingTypeOK
<1>4. /\ Len(delivered') = Len(delivered) + 1
      /\ delivered'[Len(delivered) + 1] = get_c
      /\ \A j \in 1 .. Len(delivered) : delivered'[j] = delivered[j]
      /\ delivered' \in Seq(Chars \cup {None})
  BY <1>1, <1>2, <1>3
<1>5. Dist(kbd_tail) = 0 /\ Dist(kbd_head) > 0 /\ Dist(kbd_head) \in Nat
  BY <1>1, <1>3 DEF Dist
<1>6. get_c = accepted[Len(delivered) + 1] /\ Len(delivered) + 1 <= Len(accepted)
  <2>1. kbd_buffer[kbd_tail] = accepted[Len(delivered) + 1 + Dist(kbd_tail)]
    BY <1>1, <1>5 DEF RingIInv, RingInv
  <2>2. QED
    BY <2>1, <1>1, <1>3, <1>5 DEF RingIInv, RingInv
<1>7. RingTypeOK'
  BY <1>1, <1>2, <1>4 DEF RingIInv, RingTypeOK, mods
<1>8. InOrder'
  BY <1>1, <1>2, <1>4, <1>6 DEF RingIInv, InOrder
<1>9. Dist(kbd_head)' = Dist(kbd_head) - 1
  BY <1>1, <1>2, <1>3 DEF Dist
<1>10. ASSUME NEW i \in 0 .. RingSize - 1, Dist(i)' < Dist(kbd_head)'
       PROVE  kbd_buffer'[i] = accepted'[Len(delivered') + 1 + Dist(i)']
  <2>1. i # kbd_tail
    BY <1>1, <1>2, <1>9, <1>10 DEF Dist
  <2>2. Dist(i)' = Dist(i) - 1 /\ Dist(i) \in Nat
    BY <1>1, <1>2, <2>1 DEF Dist
  <2>3. kbd_buffer[i] = accepted[Len(delivered) + 1 + Dist(i)]
    BY <1>5, <1>9, <1>10, <2>2 DEF RingIInv, RingInv
  <2>4. Len(delivered') + 1 + Dist(i)' = Len(delivered) + 1 + Dist(i)
    BY <1>1, <1>4, <2>2
  <2>5. QED
    BY <2>3, <2>4, <1>2
<1>11. Dist(kbd_head)' = Len(accepted') - Len(delivered')
  BY <1>1, <1>2, <1>4, <1>9 DEF RingIInv, RingInv
<1>12. QED
  BY <1>2, <1>7, <1>8, <1>10, <1>11 DEF RingIInv, RingInv

LEMMA RingNext == RingIInv /\ [KbdNext]_kbdVars => RingIInv'
<1> SUFFICES ASSUME RingIInv, [KbdNext]_kbdVars PROVE RingIInv'
  OBVIOUS
<1>1. ASSUME NEW key, Release(key) PROVE RingIInv'
  <2>1. UNCHANGED <<kbd_buffer, kbd_head, kbd_tail, get_pc, get_c, accepted, delivered, dropped, caps_lock>>
    BY <1>1 DEF Release, ring
  <2>2. shift_pressed' \in BOOLEAN /\ ctrl_pressed' \in BOOLEAN /\ held' \subseteq Modifiers
    BY <1>1 DEF Release, RingIInv, RingTypeOK
  <2>3. QED
    BY <2>1, <2>2 DEF RingIInv, RingTypeOK, InOrder, RingInv, Dist
<1>2. ASSUME NEW key, PressModifier(key) PROVE RingIInv'
  <2>1. UNCHANGED <<kbd_buffer, kbd_head, kbd_tail, get_pc, get_c, accepted, delivered, dropped>>
    BY <1>2 DEF PressModifier, ring
  <2>2. shift_pressed' \in BOOLEAN /\ ctrl_pressed' \in BOOLEAN /\ caps_lock' \in BOOLEAN
    BY <1>2 DEF PressModifier, RingIInv, RingTypeOK
  <2>3. held' \subseteq Modifiers
    BY <1>2 DEF PressModifier, RingIInv, RingTypeOK
  <2>4. QED
    BY <2>1, <2>2, <2>3 DEF RingIInv, RingTypeOK, InOrder, RingInv, Dist
<1>3. ASSUME NEW key, PressKey(key) PROVE RingIInv'
  <2>1. CASE Translate(key) # None
    <3>1. Translate(key) \in Chars
      BY <2>1, TranslateType
    <3>2. kbd_put(Translate(key)) /\ UNCHANGED <<kbd_tail, mods, get_pc, get_c, held, delivered>>
      BY <1>3, <2>1 DEF PressKey
    <3>3. QED
      BY <3>1, <3>2, PutInv
  <2>2. CASE Translate(key) = None
    <3>1. UNCHANGED <<ring, accepted, dropped, mods, get_pc, get_c, held, delivered>>
      BY <1>3, <2>2 DEF PressKey
    <3>2. QED
      BY <3>1 DEF RingIInv, RingTypeOK, InOrder, RingInv, Dist, ring, mods
  <2>3. QED
    BY <2>1, <2>2
<1>4. CASE GetCheck
  BY <1>4 DEF GetCheck, RingIInv, RingTypeOK, InOrder, RingInv, Dist, ring, mods
<1>5. CASE GetRead
  <2>1. kbd_buffer[kbd_tail] \in Chars \cup {None}
    BY DEF RingIInv, RingTypeOK
  <2>2. QED
    BY <1>5, <2>1 DEF GetRead, RingIInv, RingTypeOK, InOrder, RingInv, Dist, ring, mods
<1>6. CASE GetAdvance
  BY <1>6, AdvanceInv
<1>7. CASE UNCHANGED kbdVars
  BY <1>7 DEF kbdVars, RingIInv, RingTypeOK, InOrder, RingInv, Dist, ring, mods
<1>8. QED
  BY <1>1, <1>2, <1>3, <1>4, <1>5, <1>6, <1>7 DEF KbdNext, keyboard_handler, kbd_get

LEMMA RingInductive == KbdSpec => []RingIInv
  BY RingInit, RingNext, PTL DEF KbdSpec

\* The shell gets a prefix of what the handler stored, in order, for every size
\* of the ring and wherever the interrupts land in kbd_get.
THEOREM DeliveredInOrder == KbdSpec => []InOrder
<1>1. RingIInv => InOrder
  BY DEF RingIInv
<1>2. QED
  BY <1>1, RingInductive, PTL

\* The head and the tail never leave the array, and kbd_get holds characters.
THEOREM RingTypeCorrect == KbdSpec => []RingTypeOK
<1>1. RingIInv => RingTypeOK
  BY DEF RingIInv
<1>2. QED
  BY <1>1, RingInductive, PTL

\* A character is lost only to a ring with RingSize - 1 characters waiting.
THEOREM LossOnlyAtLimit == KbdSpec => LossOnlyWhenFull
<1> DEFINE Step == /\ dropped' /\ ~dropped => Len(accepted) - Len(delivered) = RingSize - 1
                   /\ Len(accepted') - Len(delivered') <= RingSize - 1
<1>1. ASSUME RingIInv, RingIInv', [KbdNext]_kbdVars PROVE [Step]_kbdVars
  <2>1. Len(accepted') - Len(delivered') <= RingSize - 1
    BY <1>1, RingAssumption DEF RingIInv, RingInv, Dist, RingTypeOK
  <2>2. ASSUME dropped', ~dropped PROVE Len(accepted) - Len(delivered) = RingSize - 1
    <3>1. PICK key : PressKey(key) /\ Translate(key) # None
      BY <1>1, <2>2 DEF KbdNext, keyboard_handler, kbd_get, PressKey, PressModifier, Release,
         GetCheck, GetRead, GetAdvance, kbdVars
    <3>2. (kbd_head + 1) % RingSize = kbd_tail
      BY <2>2, <3>1 DEF PressKey, kbd_put
    <3>3. kbd_head \in 0 .. RingSize - 1 /\ kbd_tail \in 0 .. RingSize - 1
      BY <1>1 DEF RingIInv, RingTypeOK
    <3>4. kbd_tail = IF kbd_head + 1 = RingSize THEN 0 ELSE kbd_head + 1
      BY <3>2, <3>3, NextRingSlot
    <3>5. QED
      BY <1>1, <3>3, <3>4, RingAssumption DEF RingIInv, RingInv, Dist
  <2>3. QED
    BY <2>1, <2>2
<1>2. QED
  BY <1>1, RingInductive, PTL DEF KbdSpec, LossOnlyWhenFull

=============================================================================
