------------------------------- MODULE Task --------------------------------
(***************************************************************************)
(* The task table and the cooperative scheduler, src/src/core/task.c, and  *)
(* the loop of kmain that drives it.  A task is a C function that          *)
(* task_yield calls and that returns: there is no context switch.          *)
(*                                                                         *)
(* The scan of task_yield is stepped slot by slot, because the timer       *)
(* interrupt moves the clock it compares wake times with.  Task functions  *)
(* may create, kill any task, the idle one and themselves included, and    *)
(* sleep; none of the kernel yields inside a task.  Priorities are stored  *)
(* and never read, and are left out with the names.                        *)
(***************************************************************************)
EXTENDS Integers

CONSTANTS
    MaxTasks,      \* MAX_TASKS, 32 in the source
    TickMod,       \* 2^32 in the source: ticks and wake times are uint32_t
    MaxTicks,      \* bound: timer interrupts in a behaviour
    MaxIds,        \* bound: task ids given out
    Sleeps         \* arguments of task_sleep

ASSUME TaskAssumption ==
    /\ MaxTasks \in Nat /\ MaxTasks > 1
    /\ TickMod \in Nat /\ TickMod > 1 /\ MaxTicks \in Nat
    /\ MaxIds \in Nat /\ Sleeps \subseteq Nat

VARIABLES
    tasks,               \* the table
    next_task_id,
    current_task_id,     \* a slot of the table, despite its name
    timer_ticks,
    pc,                  \* "loop" (kmain), "scan" (task_yield), "task"
    start,               \* local variable of task_yield
    elapsed,             \* timer interrupts so far, unwrapped
    due,                 \* history: per slot, interrupts left to sleep
    killed,              \* history: ids killed by the function of another slot
    ahead                \* history: per slot, slots chosen since it could run

hist == <<due, killed, ahead>>
clock == <<timer_ticks, elapsed>>
vars == <<tasks, next_task_id, current_task_id, clock, pc, start, hist>>

Slots == 0 .. MaxTasks - 1
States == {"READY", "RUNNING", "WAITING", "DEAD"}
Live(i) == tasks[i].state # "DEAD"

DeadTask == [id |-> 0, state |-> "DEAD", function |-> FALSE, wake_time |-> 0]

\* task_init: every slot dead, slot 0 the idle task, which has no function.
Init ==
    /\ tasks = [i \in Slots |-> IF i = 0 THEN [DeadTask EXCEPT !.state = "READY"] ELSE DeadTask]
    /\ next_task_id = 1 /\ current_task_id = 0
    /\ timer_ticks = 0 /\ elapsed = 0
    /\ pc = "create_shell" /\ start = 0
    /\ due = [i \in Slots |-> 0] /\ killed = {} /\ ahead = [i \in Slots |-> {}]

-----------------------------------------------------------------------------
(* task_create, task_kill and task_sleep.                                  *)

\* The first dead slot after slot 0 is filled; without one nothing happens.
task_create ==
    \/ \E i \in Slots \ {0} :
          /\ ~Live(i) /\ \A j \in 1 .. i - 1 : Live(j)
          /\ tasks' = [tasks EXCEPT ![i] = [id |-> next_task_id, state |-> "READY",
                                          function |-> TRUE, wake_time |-> 0]]
          /\ due' = [due EXCEPT ![i] = 0] /\ ahead' = [ahead EXCEPT ![i] = {}]
          /\ next_task_id' = next_task_id + 1
    \/ /\ \A i \in Slots \ {0} : Live(i)
       /\ UNCHANGED <<tasks, next_task_id, due, ahead>>

\* The first slot that carries the id, dead or not, is marked dead, be it the
\* idle task's or the one whose function is running.
task_kill(id) ==
    \E i \in Slots :
       /\ tasks[i].id = id /\ \A j \in 0 .. i - 1 : tasks[j].id # id
       /\ tasks' = [tasks EXCEPT ![i].state = "DEAD"]
       /\ killed' = IF i = current_task_id THEN killed ELSE killed \cup {id}

\* Mutant: the number of ticks is stored, not the tick to wake at.
task_sleep_Relative(ticks) ==
    /\ tasks' = [tasks EXCEPT ![current_task_id].wake_time = ticks,
                              ![current_task_id].state = "WAITING"]
    /\ due' = [due EXCEPT ![current_task_id] = ticks]

task_sleep(ticks) ==
    /\ tasks' = [tasks EXCEPT ![current_task_id].wake_time = (timer_ticks + ticks) % TickMod,
                              ![current_task_id].state = "WAITING"]
    /\ due' = [due EXCEPT ![current_task_id] = ticks]

-----------------------------------------------------------------------------
(* task_yield.                                                             *)

CanRun(i) ==
    /\ tasks[i].state = "READY"
    /\ tasks[i].wake_time = 0 \/ timer_ticks >= tasks[i].wake_time

\* Mutant: every scan starts over at the first slot.
EnterYield_FromZero ==
    /\ start' = 0 /\ current_task_id' = 0 /\ pc' = "scan"
    /\ UNCHANGED <<tasks, next_task_id, clock, hist>>

\* Mutant: the scan ends at the slot it looks at first.
EnterYield_NextStart ==
    /\ start' = (current_task_id + 1) % MaxTasks /\ pc' = "scan"
    /\ UNCHANGED <<tasks, next_task_id, current_task_id, clock, hist>>

EnterYield ==
    /\ start' = current_task_id /\ pc' = "scan"
    /\ UNCHANGED <<tasks, next_task_id, current_task_id, clock, hist>>

\* The function of slot i is called, if it has one.
Execute(table, i) ==
    IF table[i].function
    THEN tasks' = [table EXCEPT ![i].state = "RUNNING"] /\ pc' = "task"
    ELSE tasks' = table /\ pc' = "loop"

\* History: slot i is chosen while the others that could run wait.
Chosen(i) ==
    ahead' = [s \in Slots |-> IF s # i /\ CanRun(s) THEN ahead[s] \cup {i} ELSE {}]

NextSlot == (current_task_id + 1) % MaxTasks

\* The scan comes to a task that can run.
ScanHit ==
    /\ pc = "scan" /\ CanRun(NextSlot)
    /\ current_task_id' = NextSlot
    /\ Execute([tasks EXCEPT ![NextSlot].wake_time = 0], NextSlot)
    /\ Chosen(NextSlot)
    /\ UNCHANGED <<next_task_id, clock, start, due, killed>>

\* The scan moves on, or is back at the slot it began with: then that slot's
\* function is called whatever its state.
ScanMiss ==
    /\ pc = "scan" /\ ~CanRun(NextSlot)
    /\ current_task_id' = NextSlot
    /\ IF NextSlot = start
       THEN Execute(tasks, NextSlot)
       ELSE UNCHANGED <<tasks, pc>>
    /\ UNCHANGED <<next_task_id, clock, start, hist>>

\* The task function returns to task_yield, which marks its slot as ready,
\* also when the function has killed the task in it.
Return ==
    /\ pc = "task"
    /\ tasks' = [tasks EXCEPT ![current_task_id].state = "READY"]
    /\ pc' = "loop"
    /\ UNCHANGED <<next_task_id, current_task_id, clock, start, hist>>

-----------------------------------------------------------------------------
(* Who calls what.                                                         *)

\* kmain creates the shell and then calls task_yield for ever.
CreateShell ==
    /\ pc = "create_shell" /\ pc' = "loop"
    /\ task_create
    /\ UNCHANGED <<current_task_id, clock, start, killed>>

MainLoop == pc = "loop" /\ EnterYield

CallCreate ==
    /\ pc = "task" /\ next_task_id < MaxIds
    /\ task_create
    /\ UNCHANGED <<current_task_id, clock, pc, start, killed>>

\* An id that no slot carries any more kills nothing.
CallKill ==
    /\ pc = "task"
    /\ \E id \in 0 .. next_task_id - 1 : task_kill(id)
    /\ UNCHANGED <<next_task_id, current_task_id, clock, pc, start, due, ahead>>

CallSleep ==
    /\ pc = "task"
    /\ \E n \in Sleeps : task_sleep(n)
    /\ UNCHANGED <<next_task_id, current_task_id, clock, pc, start, killed, ahead>>

\* timer_handler, for what the scheduler sees of it.
Tick ==
    /\ elapsed < MaxTicks
    /\ elapsed' = elapsed + 1
    /\ timer_ticks' = (timer_ticks + 1) % TickMod
    /\ due' = [i \in Slots |-> IF due[i] = 0 THEN 0 ELSE due[i] - 1]
    /\ UNCHANGED <<tasks, next_task_id, current_task_id, pc, start, killed, ahead>>

task_yield == ScanHit \/ ScanMiss

Next ==
    \/ CreateShell \/ MainLoop \/ task_yield \/ Return
    \/ CallCreate \/ CallKill \/ CallSleep
    \/ Tick

Spec == Init /\ [][Next]_vars

\* kmain never stops looping and a task function returns, as shell_task
\* does after one character.
FairSpec == Spec /\ WF_vars(CreateShell \/ MainLoop \/ task_yield \/ Return)

-----------------------------------------------------------------------------
(* Properties.                                                             *)

\* A task that the function of another slot killed never gets out of the state
\* DEAD again, although a scan that finds nothing calls the slot it began with
\* whatever that one's state is.  (A task that kills itself, or a new one in its
\* slot, is made ready by the return of its function.)
KilledStaysDead == \A i \in Slots : tasks[i].id \in killed => ~Live(i)

\* A task that sleeps is not called before as many timer interrupts as it asked
\* for have happened, but for one case: the idle task has been killed, and the
\* scan has come round to the slot it began with.
NoEarlyWake ==
    [][\A i \in Slots : tasks[i].state # "RUNNING" /\ tasks'[i].state = "RUNNING"
          => due[i] = 0 \/ (~Live(0) /\ i = start)]_vars

\* No task is called a second time while another one that could run all along
\* still waits for its first.
RoundRobin ==
    [][ScanHit => \A s \in Slots : s # NextSlot /\ CanRun(s) => NextSlot \notin ahead[s]]_vars

\* A task that can run, its wake time past, is eventually called, unless it is
\* killed, or put to sleep by the function that killed itself in the same slot.
NoStarvation == \A i \in Slots \ {0} : CanRun(i) ~> (tasks[i].state # "READY")

=============================================================================
