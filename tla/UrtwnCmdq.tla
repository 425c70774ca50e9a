------------------------------ MODULE UrtwnCmdq ------------------------------
(***************************************************************************)
(* The host command ring of driver/urtwn/if_urtwn.c and the usb task queue *)
(* of port/bus/usb/cherryusb/usbdi_compat.c that runs it.                  *)
(*                                                                         *)
(* Any thread (timer callbacks, the urb worker, the supplicant, the task   *)
(* worker itself) calls urtwn_do_async(): with sc_task_mtx held it writes  *)
(* the slot cur and counts the command; when the count was 0 it then calls *)
(* usb_add_task() outside the lock.  The task worker takes the task and    *)
(* runs urtwn_task(), which runs the slots from next up to cur; only after *)
(* it returns does the worker mark the task as no longer queued.           *)
(*                                                                         *)
(* Commands are the numbers 1, 2, ... in the order of their urtwn_do_async *)
(* calls.  sc_task is the only task of the port, so tasks[] holds at most  *)
(* one entry.  The sc_dying branch is out: nothing in the port detaches.   *)
(***************************************************************************)
EXTENDS Naturals, FiniteSets

CONSTANTS Producers,   \* threads that call urtwn_do_async
          Count,       \* URTWN_HOST_CMD_RING_COUNT
          MaxCmds      \* bound: commands issued in a behaviour

ASSUME CountAssumption == Count \in Nat \ {0}
ASSUME MaxCmdsAssumption == MaxCmds \in Nat

VARIABLES
  ring, cur, next, queued,    \* sc->cmdq
  pc,                         \* per producer: "idle", or about to add the task
  task_queue,                 \* task->queue
  task_head,                  \* entries in dev->tasks[]
  task_sem,                   \* tokens of dev->task_sem
  wpc,                        \* the task worker
  wt, mark,                   \* the thread in urtwn_wait_async; issued on entry
  issued, executed,           \* history: commands issued, commands run
  lost                        \* history: "full" once the ring was full,
                              \* "dropped" once usb_add_task dropped an add

cmdq == <<ring, cur, next, queued>>
taskVars == <<task_queue, task_head, task_sem>>
waitVars == <<wt, mark>>
history == <<issued, executed, lost>>
vars == <<cmdq, pc, taskVars, wpc, waitVars, history>>

Slots == 0 .. Count - 1
Cmds == 0 .. MaxCmds          \* 0 is a slot never written
USB_TASKQ_DRIVER == "driver"
USB_NUM_TASKQS == "none"      \* the task is in no queue
WorkerPC == {"take", "task", "run", "retire", "reset"}

TypeOK ==
  /\ ring \in [Slots -> Cmds]
  /\ cur \in Slots /\ next \in Slots
  /\ queued \in 0 .. Count
  /\ pc \in [Producers -> {"idle", "add"}]
  /\ task_queue \in {USB_TASKQ_DRIVER, USB_NUM_TASKQS}
  /\ task_head \in {0, 1} /\ task_sem \in Nat
  /\ wpc \in WorkerPC
  /\ wt \in {"idle", "blocked", "woken"} /\ mark \in Cmds
  /\ issued \in Cmds /\ executed \subseteq Cmds
  /\ lost \subseteq {"full", "dropped"}

Init ==
  /\ ring = [i \in Slots |-> 0] /\ cur = 0 /\ next = 0 /\ queued = 0
  /\ pc = [p \in Producers |-> "idle"]
  /\ task_queue = USB_NUM_TASKQS /\ task_head = 0 /\ task_sem = 0
  /\ wpc = "take"
  /\ wt = "idle" /\ mark = 0
  /\ issued = 0 /\ executed = {} /\ lost = {}

\* (i + 1) % URTWN_HOST_CMD_RING_COUNT
Succ(i) == IF i + 1 = Count THEN 0 ELSE i + 1

-----------------------------------------------------------------------------
(* urtwn_do_async, on thread p *)

\* The task scheduled only by the command after the first.
DoAsyncLate(p) ==
  /\ pc[p] = "idle" /\ issued < MaxCmds
  /\ issued' = issued + 1
  /\ ring' = [ring EXCEPT ![cur] = issued + 1]
  /\ cur' = Succ(cur)
  /\ queued' = IF queued = Count THEN queued ELSE queued + 1
  /\ pc' = [pc EXCEPT ![p] = IF queued = 1 THEN "add" ELSE "idle"]
  /\ lost' = IF queued' = Count THEN lost \cup {"full"} ELSE lost
  /\ UNCHANGED <<next, taskVars, wpc, waitVars, executed>>

\* One critical section: the slot is written and cur advanced even when the
\* ring is full; only the count stays.
DoAsync(p) ==
  /\ pc[p] = "idle" /\ issued < MaxCmds
  /\ issued' = issued + 1
  /\ ring' = [ring EXCEPT ![cur] = issued + 1]
  /\ cur' = Succ(cur)
  /\ queued' = IF queued = Count THEN queued ELSE queued + 1
  /\ pc' = [pc EXCEPT ![p] = IF queued = 0 THEN "add" ELSE "idle"]
  /\ lost' = IF queued' = Count THEN lost \cup {"full"} ELSE lost
  /\ UNCHANGED <<next, taskVars, wpc, waitVars, executed>>

\* usb_add_task: nothing is added while task->queue is set.
AddTask(p) ==
  /\ pc[p] = "add"
  /\ pc' = [pc EXCEPT ![p] = "idle"]
  /\ IF task_queue # USB_NUM_TASKQS
     THEN lost' = lost \cup {"dropped"} /\ UNCHANGED taskVars
     ELSE /\ task_queue' = USB_TASKQ_DRIVER
          /\ task_head' = task_head + 1
          /\ task_sem' = task_sem + 1
          /\ UNCHANGED lost
  /\ UNCHANGED <<cmdq, wpc, waitVars, issued, executed>>

-----------------------------------------------------------------------------
(* wlan_taskq_worker_loop and urtwn_task *)

WorkerTake ==
  /\ wpc = "take" /\ task_sem > 0
  /\ task_sem' = task_sem - 1
  /\ IF task_head = 0
     THEN UNCHANGED <<task_head, wpc>>
     ELSE task_head' = task_head - 1 /\ wpc' = "task"
  /\ UNCHANGED <<cmdq, pc, task_queue, waitVars, history>>

\* The loop test `ring->next != ring->cur' with the index nx; leaving the
\* loop broadcasts sc_task_cv in the same critical section.
LoopTest(nx) ==
  IF nx # cur
  THEN wpc' = "run" /\ UNCHANGED wt
  ELSE /\ wpc' = "reset"
       /\ wt' = IF wt = "blocked" THEN "woken" ELSE wt

TaskStart ==
  /\ wpc = "task"
  /\ LoopTest(next)
  /\ UNCHANGED <<cmdq, pc, taskVars, mark, history>>

\* The callback reads the slot outside the lock.  It may itself call
\* urtwn_do_async: that is a DoAsync step of a producer at this point.
RunCmd ==
  /\ wpc = "run"
  /\ executed' = executed \cup {ring[next]}
  /\ wpc' = "retire"
  /\ UNCHANGED <<cmdq, pc, taskVars, waitVars, issued, lost>>

\* The slot retired before its callback has run.
RetireTwo ==
  /\ wpc = "retire"
  /\ queued' = queued - 1
  /\ next' = Succ(Succ(next))
  /\ LoopTest(Succ(Succ(next)))
  /\ UNCHANGED <<ring, cur, pc, taskVars, mark, history>>

\* The count forgotten when a command retires.
RetireUncounted ==
  /\ wpc = "retire"
  /\ queued' = queued
  /\ next' = Succ(next)
  /\ LoopTest(Succ(next))
  /\ UNCHANGED <<ring, cur, pc, taskVars, mark, history>>

\* No wakeup at the end of the loop.
RetireSilent ==
  /\ wpc = "retire"
  /\ queued' = queued - 1
  /\ next' = Succ(next)
  /\ wpc' = IF Succ(next) # cur THEN "run" ELSE "reset"
  /\ UNCHANGED <<ring, cur, pc, taskVars, waitVars, history>>

Retire ==
  /\ wpc = "retire"
  /\ queued' = queued - 1
  /\ next' = Succ(next)
  /\ LoopTest(Succ(next))
  /\ UNCHANGED <<ring, cur, pc, taskVars, mark, history>>

\* After urtwn_task has returned: task->queue = USB_NUM_TASKQS.
WorkerReset ==
  /\ wpc = "reset"
  /\ task_queue' = USB_NUM_TASKQS
  /\ wpc' = "take"
  /\ UNCHANGED <<cmdq, pc, task_head, task_sem, waitVars, history>>

-----------------------------------------------------------------------------
(* urtwn_wait_async; cv_wait returns after a broadcast (see OsalCv) *)

WaitAsync ==
  /\ wt = "idle" /\ queued > 0
  /\ wt' = "blocked" /\ mark' = issued
  /\ UNCHANGED <<cmdq, pc, taskVars, wpc, history>>

WaitRecheck ==
  /\ wt = "woken"
  /\ wt' = IF queued > 0 THEN "blocked" ELSE "idle"
  /\ UNCHANGED <<cmdq, pc, taskVars, wpc, mark, history>>

-----------------------------------------------------------------------------
Worker == WorkerTake \/ TaskStart \/ RunCmd \/ Retire \/ WorkerReset

Next ==
  \/ \E p \in Producers : DoAsync(p) \/ AddTask(p)
  \/ Worker
  \/ WaitAsync \/ WaitRecheck

Spec == Init /\ [][Next]_vars

\* The threads are scheduled: a thread past the lock calls usb_add_task, the
\* worker and the woken waiter run.  Nobody has to issue a command.
FairSpec ==
  /\ Spec
  /\ \A p \in Producers : WF_vars(AddTask(p))
  /\ WF_vars(Worker) /\ WF_vars(WaitRecheck)

-----------------------------------------------------------------------------
(* Properties *)

\* The ring was never full.
Fits == "full" \notin lost

\* The KASSERTs at the top and at the bottom of urtwn_task's loop: a command
\* is run and retired only while the count is positive, whatever the threads
\* add in between and even after the ring overflowed.
CountPositive == wpc \in {"run", "retire"} => queued > 0

\* As long as the ring was never full, the count is the distance from next to
\* cur, so the two conditions the driver uses for "empty" (queued == 0 in
\* urtwn_do_async, next == cur in urtwn_task) agree.
CountIsDistance ==
  Fits => queued = IF next <= cur THEN cur - next ELSE Count + cur - next

\* As long as the ring was never full, a command that is being run or is
\* still to be run keeps its slot: the slots from next to cur hold the last
\* `queued' commands issued, in order, whoever issued them.
SlotsInOrder ==
  Fits => \A i \in Slots :
    LET k == IF i >= next THEN i - next ELSE Count + i - next IN
    k < queued => ring[i] = issued - queued + 1 + k

\* As long as the ring was never full, commands run in the order they were
\* issued and none is skipped: the ones run are exactly the ones no longer
\* counted, and the one whose callback has returned.
RunInOrder ==
  Fits => executed = 1 .. (IF wpc = "retire" THEN issued - queued + 1
                                              ELSE issued - queued)

\* "Wait for all queued asynchronous commands to complete": when
\* urtwn_wait_async returns, every command issued before the call has run.
WaitComplete ==
  [][wt # "idle" /\ wt' = "idle" /\ Fits => 1 .. mark \subseteq executed]_vars

\* Counted commands always have somebody who will run them, unless the ring
\* was full or usb_add_task dropped an add: a thread about to add the task,
\* the task in the queue with its token, or the worker inside urtwn_task.
SomebodyRuns ==
  queued > 0 /\ lost = {} =>
     \/ \E p \in Producers : pc[p] = "add"
     \/ task_head = 1 /\ task_sem > 0 /\ wpc = "take"
     \/ wpc \in {"task", "run", "retire"}

\* Every command runs, unless one of the two losses SomebodyRuns names has
\* happened: there is no third way to strand a command.
CommandsRun ==
  \A n \in 1 .. MaxCmds : issued >= n ~> (n \in executed \/ lost # {})

\* urtwn_wait_async returns once commands stop being issued, with the same
\* two exceptions.
WaitReturns == wt = "blocked" ~> (wt = "idle" \/ lost # {})

Commands == INSTANCE AsyncCommands WITH
  posted <- issued, ran <- executed, upto <- mark,
  waiter <- IF wt = "idle" THEN "idle" ELSE "waiting",
  mode <- IF Fits THEN "fits" ELSE "overrun"

\* The ring, its count, the task and the condition variable implement the
\* queue AsyncCommands describes: urtwn_task runs what urtwn_do_async was
\* given one at a time and in order, and urtwn_wait_async returns only when
\* "all queued asynchronous commands" have run, as long as the ring was never
\* full.
ImplementsCommands == Commands!Spec

\* sc_task is queued once: task->queue is set from usb_add_task until the
\* worker has come back from urtwn_task, with one token per queue entry.
TaskOnce ==
  /\ task_queue # USB_NUM_TASKQS <=> (task_head = 1 \/ wpc # "take")
  /\ task_head = 1 => wpc = "take"
  /\ task_sem = task_head

\* The steps from next to cur never exceed the count; a running command that
\* cur has caught up with means a full ring.
Accounting ==
  /\ (IF next <= cur THEN cur - next ELSE Count + cur - next) <= queued
  /\ wpc \in {"run", "retire"} /\ cur = next => queued = Count
  /\ Fits => queued < Count
  /\ queued <= issued /\ mark <= issued

\* The inductive invariant: how the two descriptions of the ring (the indices
\* and the count), the task's flags and the history agree in every state of
\* urtwn_do_async, usb_add_task, urtwn_task and the task worker.
CmdqInv ==
  /\ TypeOK /\ TaskOnce /\ Accounting
  /\ CountPositive /\ CountIsDistance /\ SlotsInOrder /\ RunInOrder
  /\ SomebodyRuns

-----------------------------------------------------------------------------
(* What comments in the sources lead one to expect and the code does not   *)
(* keep: TLC finds a behaviour against each (see README).                  *)

\* "Schedule a task to process the command if need be": every issued command
\* is eventually run.  While the ring never fills this fails only through
\* the add that usb_add_task drops before the worker resets task->queue.
CommandsRunUnlessFull ==
  \A n \in 1 .. MaxCmds : issued >= n ~> (n \in executed \/ ~Fits)

\* "Process host commands": when urtwn_task leaves its loop nothing is
\* counted as waiting.
TaskDrains == [][wpc # "reset" /\ wpc' = "reset" => queued' = 0]_vars
=============================================================================
