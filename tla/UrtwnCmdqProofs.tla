--------------------------- MODULE UrtwnCmdqProofs ---------------------------
(***************************************************************************)
(* Proofs about UrtwnCmdq for every ring size, number of threads and       *)
(* number of commands.  CmdqInv is inductive; the driver's KASSERTs, the   *)
(* order in which commands run and the scheduling argument follow.         *)
(***************************************************************************)
EXTENDS UrtwnCmdq, TLAPS

USE CountAssumption, MaxCmdsAssumption

\* The ring index that follows i is an index.
LEMMA SuccType ==
  ASSUME NEW i \in Slots
  PROVE  Succ(i) \in Slots
BY DEF Succ, Slots

\* CmdqInv holds when the driver has attached.
LEMMA CmdqInit == Init => CmdqInv
<1> SUFFICES ASSUME Init PROVE CmdqInv
  OBVIOUS
<1> USE DEF Init
<1>1. TypeOK
  BY DEF TypeOK, Slots, Cmds, WorkerPC, USB_NUM_TASKQS, USB_TASKQ_DRIVER
<1>2. TaskOnce /\ Accounting /\ CountPositive /\ CountIsDistance /\ SomebodyRuns
  BY DEF TaskOnce, USB_NUM_TASKQS, Accounting, CountPositive, CountIsDistance, SomebodyRuns, Fits
<1>3. SlotsInOrder /\ RunInOrder
  BY DEF SlotsInOrder, RunInOrder, Slots, Fits
<1>4. QED
  BY <1>1, <1>2, <1>3 DEF CmdqInv

\* Every step of every thread preserves CmdqInv.
LEMMA CmdqNext == CmdqInv /\ [Next]_vars => CmdqInv'
<1> SUFFICES ASSUME CmdqInv, [Next]_vars PROVE CmdqInv'
  OBVIOUS
<1> USE DEF CmdqInv, Slots, Cmds, USB_NUM_TASKQS, USB_TASKQ_DRIVER, WorkerPC
<1>1. ASSUME NEW p \in Producers, DoAsync(p) PROVE CmdqInv'
  <2> USE <1>1 DEF DoAsync, taskVars, waitVars
  <2>1. TypeOK'
    <3>1. cur' \in Slots /\ queued' \in 0 .. Count /\ issued' \in Cmds
      BY SuccType DEF TypeOK
    <3>2. ring' \in [Slots -> Cmds]
      BY <3>1 DEF TypeOK
    <3>3. pc' \in [Producers -> {"idle", "add"}] /\ lost' \subseteq {"full", "dropped"}
      BY DEF TypeOK
    <3>4. QED
      BY <3>1, <3>2, <3>3 DEF TypeOK
  <2>2. TaskOnce'
    BY DEF TaskOnce
  <2>3. (Accounting /\ CountPositive /\ CountIsDistance)'
    BY DEF TypeOK, Accounting, CountPositive, CountIsDistance, Fits, Succ
  <2>4. SlotsInOrder'
    BY DEF TypeOK, Accounting, CountIsDistance, SlotsInOrder, Fits
  <2>5. RunInOrder'
    BY DEF TypeOK, Accounting, RunInOrder, Fits
  <2>6. SomebodyRuns'
    BY DEF TypeOK, SomebodyRuns
  <2>7. QED
    BY <2>1, <2>2, <2>3, <2>4, <2>5, <2>6
<1>2. ASSUME NEW p \in Producers, AddTask(p) PROVE CmdqInv'
  <2> USE <1>2 DEF AddTask, taskVars, waitVars, cmdq
  <2>1. TypeOK' /\ TaskOnce'
    <3> pc' \in [Producers -> {"idle", "add"}] /\ lost' \subseteq {"full", "dropped"}
      BY Zenon DEF TypeOK
    <3>1. CASE task_queue = USB_NUM_TASKQS
      BY <3>1 DEF TypeOK, TaskOnce
    <3>2. CASE task_queue # USB_NUM_TASKQS
      BY <3>2 DEF TypeOK, TaskOnce
    <3>3. QED
      BY <3>1, <3>2
  <2>2. (Accounting /\ CountPositive /\ CountIsDistance)'
    BY DEF TypeOK, Accounting, CountPositive, CountIsDistance, Fits
  <2>3. (SlotsInOrder /\ RunInOrder)'
    BY DEF SlotsInOrder, RunInOrder, Fits
  <2>4. SomebodyRuns'
    BY DEF TypeOK, SomebodyRuns, TaskOnce
  <2>5. QED
    BY <2>1, <2>2, <2>3, <2>4
<1>3. ASSUME WorkerTake PROVE CmdqInv'
  <2> USE <1>3 DEF WorkerTake, waitVars, cmdq, history
  <2>1. TypeOK' /\ TaskOnce'
    BY DEF TypeOK, TaskOnce
  <2>2. (Accounting /\ CountPositive /\ CountIsDistance)'
    BY DEF TypeOK, Accounting, CountPositive, CountIsDistance, Fits
  <2>3. (SlotsInOrder /\ RunInOrder /\ SomebodyRuns)'
    BY DEF TypeOK, SlotsInOrder, RunInOrder, SomebodyRuns, Fits, TaskOnce
  <2>4. QED
    BY <2>1, <2>2, <2>3
<1>4. ASSUME TaskStart PROVE CmdqInv'
  <2> USE <1>4 DEF TaskStart, LoopTest, taskVars, cmdq, history
  <2>1. TypeOK' /\ TaskOnce'
    BY DEF TypeOK, TaskOnce
  <2>2. (Accounting /\ CountPositive /\ CountIsDistance)'
    BY DEF TypeOK, Accounting, CountPositive, CountIsDistance, Fits
  <2>3. (SlotsInOrder /\ RunInOrder)'
    BY DEF SlotsInOrder, RunInOrder, Fits
  <2>4. SomebodyRuns'
    BY DEF TypeOK, SomebodyRuns, CountIsDistance, Fits
  <2>5. QED
    BY <2>1, <2>2, <2>3, <2>4
<1>5. ASSUME RunCmd PROVE CmdqInv'
  <2> USE <1>5 DEF RunCmd, taskVars, cmdq, waitVars
  <2>1. TypeOK' /\ TaskOnce'
    BY Zenon DEF TypeOK, TaskOnce
  <2>2. (Accounting /\ CountPositive /\ CountIsDistance)'
    BY DEF TypeOK, Accounting, CountPositive, CountIsDistance, Fits
  <2>3. (SlotsInOrder /\ SomebodyRuns)'
    BY DEF SlotsInOrder, SomebodyRuns, Fits
  <2>4. Fits => ring[next] = issued - queued + 1
    BY DEF TypeOK, SlotsInOrder, CountPositive
  <2>5. RunInOrder'
    BY <2>4 DEF TypeOK, Accounting, CountPositive, RunInOrder, Fits
  <2>6. QED
    BY <2>1, <2>2, <2>3, <2>5
<1>6. ASSUME Retire PROVE CmdqInv'
  <2> USE <1>6 DEF Retire, LoopTest, taskVars, history
  <2>1. TypeOK' /\ TaskOnce'
    <3>1. next' \in Slots /\ queued' \in 0 .. Count
      BY SuccType DEF TypeOK, CountPositive
    <3>2. wpc' \in {"run", "reset"} /\ wt' \in {"idle", "blocked", "woken"}
      BY DEF TypeOK
    <3>3. QED
      BY <3>1, <3>2 DEF TypeOK, TaskOnce
  <2>2. (Accounting /\ CountPositive /\ CountIsDistance)'
    BY DEF TypeOK, Accounting, CountPositive, CountIsDistance, Fits, Succ
  <2>3. SlotsInOrder'
    BY SMTT(30) DEF TypeOK, Accounting, CountPositive, CountIsDistance, SlotsInOrder,
           Fits, Succ
  <2>4. RunInOrder'
    BY SMTT(30) DEF TypeOK, Accounting, CountPositive, RunInOrder, Fits
  <2>5. SomebodyRuns'
    BY <2>2 DEF TypeOK, SomebodyRuns, CountIsDistance, Fits
  <2>6. QED
    BY <2>1, <2>2, <2>3, <2>4, <2>5
<1>7. ASSUME WorkerReset PROVE CmdqInv'
  <2> USE <1>7 DEF WorkerReset, waitVars, cmdq, history
  <2>1. TypeOK' /\ TaskOnce'
    BY DEF TypeOK, TaskOnce
  <2>2. (Accounting /\ CountPositive /\ CountIsDistance)'
    BY DEF TypeOK, Accounting, CountPositive, CountIsDistance, Fits
  <2>3. (SlotsInOrder /\ RunInOrder /\ SomebodyRuns)'
    BY DEF TypeOK, SlotsInOrder, RunInOrder, SomebodyRuns, Fits
  <2>4. QED
    BY <2>1, <2>2, <2>3
<1>8. ASSUME WaitAsync PROVE CmdqInv'
  <2> USE <1>8 DEF WaitAsync, taskVars, cmdq, history
  <2>1. TypeOK' /\ TaskOnce'
    BY DEF TypeOK, TaskOnce
  <2>2. (Accounting /\ CountPositive /\ CountIsDistance)'
    BY DEF TypeOK, Accounting, CountPositive, CountIsDistance, Fits
  <2>3. (SlotsInOrder /\ RunInOrder /\ SomebodyRuns)'
    BY DEF SlotsInOrder, RunInOrder, SomebodyRuns, Fits
  <2>4. QED
    BY <2>1, <2>2, <2>3
<1>9. ASSUME WaitRecheck PROVE CmdqInv'
  <2> USE <1>9 DEF WaitRecheck, taskVars, cmdq, history
  <2>1. TypeOK' /\ TaskOnce'
    BY DEF TypeOK, TaskOnce
  <2>2. (Accounting /\ CountPositive /\ CountIsDistance)'
    BY DEF TypeOK, Accounting, CountPositive, CountIsDistance, Fits
  <2>3. (SlotsInOrder /\ RunInOrder /\ SomebodyRuns)'
    BY DEF SlotsInOrder, RunInOrder, SomebodyRuns, Fits
  <2>4. QED
    BY <2>1, <2>2, <2>3
<1>10. CASE UNCHANGED vars
  <2> USE <1>10 DEF vars, taskVars, cmdq, waitVars, history
  <2>1. TypeOK' /\ TaskOnce'
    BY DEF TypeOK, TaskOnce
  <2>2. (Accounting /\ CountPositive /\ CountIsDistance)'
    BY DEF Accounting, CountPositive, CountIsDistance, Fits
  <2>3. (SlotsInOrder /\ RunInOrder /\ SomebodyRuns)'
    BY DEF SlotsInOrder, RunInOrder, SomebodyRuns, Fits
  <2>4. QED
    BY <2>1, <2>2, <2>3
<1>11. QED
  BY <1>1, <1>2, <1>3, <1>4, <1>5, <1>6, <1>7, <1>8, <1>9, <1>10 DEF Next, Worker

-----------------------------------------------------------------------------
\* CmdqInv is an invariant of the command ring and its task.
THEOREM CmdqInvAlways == Spec => []CmdqInv
BY CmdqInit, CmdqNext, PTL DEF Spec

\* The KASSERTs of urtwn_task never fire, even on a ring that overflowed.
THEOREM KassertsHold == Spec => []CountPositive
<1>1. CmdqInv => CountPositive
  BY DEF CmdqInv
<1>2. QED
  BY CmdqInvAlways, <1>1, PTL

\* On a ring that never fills, urtwn_do_async never overwrites a command that
\* has not been retired and urtwn_task runs the commands in order, each once.
THEOREM CommandsInOrder == Spec => [](SlotsInOrder /\ RunInOrder)
<1>1. CmdqInv => SlotsInOrder /\ RunInOrder
  BY DEF CmdqInv
<1>2. QED
  BY CmdqInvAlways, <1>1, PTL

\* A counted command is without anyone to run it only after the ring was full
\* or usb_add_task dropped an add.
THEOREM CommandsScheduled == Spec => []SomebodyRuns
<1>1. CmdqInv => SomebodyRuns
  BY DEF CmdqInv
<1>2. QED
  BY CmdqInvAlways, <1>1, PTL

\* urtwn_wait_async returns only when all commands issued before it have run.
THEOREM WaitIsComplete == Spec => WaitComplete
<1>1. ASSUME CmdqInv, [Next]_vars, wt # "idle", wt' = "idle", Fits
      PROVE  1 .. mark \subseteq executed
  <2>1. WaitRecheck
    BY <1>1 DEF Next, Worker, DoAsync, AddTask, WorkerTake, TaskStart, RunCmd,
                Retire, WorkerReset, WaitAsync, LoopTest, vars, waitVars,
                CmdqInv, TypeOK
  <2>2. queued = 0
    BY <1>1, <2>1 DEF WaitRecheck, CmdqInv, TypeOK
  <2>3. executed = 1 .. issued
    BY <1>1, <2>2 DEF CmdqInv, TypeOK, CountPositive, RunInOrder, Cmds
  <2>4. QED
    BY <1>1, <2>3 DEF CmdqInv, TypeOK, Accounting, Cmds
<1>2. CmdqInv /\ [Next]_vars
        => [wt # "idle" /\ wt' = "idle" /\ Fits
              => 1 .. mark \subseteq executed]_vars
  BY <1>1
<1>3. QED
  BY CmdqInvAlways, <1>2, PTL DEF Spec, WaitComplete
\* The detailed ring implements AsyncCommands: every step of a thread is a step
\* of the abstract queue or leaves what its users see as it was.
THEOREM CommandsImplemented == Spec => ImplementsCommands
<1>1. Init => Commands!Init
  BY DEF Init, Commands!Init, Fits
<1>2. CmdqInv /\ [Next]_vars => [Commands!Next]_(Commands!vars)
  <2> SUFFICES ASSUME CmdqInv, [Next]_vars
               PROVE  Commands!Next \/ UNCHANGED Commands!vars
    OBVIOUS
  <2> USE DEF Commands!Next, Commands!vars
  <2>1. CASE ~Fits'
    BY <2>1 DEF Commands!Overrun
  <2>2. ASSUME Fits', NEW p \in Producers, DoAsync(p)
        PROVE  Commands!Post
    BY <2>2 DEF DoAsync, waitVars, Fits, Commands!Post
  <2>3. ASSUME Fits', RunCmd PROVE Fits /\ Commands!RunOldest
    <3> Fits
      BY <2>3 DEF RunCmd, Fits
    <3>1. ring[next] = issued - queued + 1
      BY <2>3 DEF RunCmd, CmdqInv, TypeOK, SlotsInOrder, CountPositive, Slots, Cmds
    <3>2. issued - queued + 1 \in 1 .. issued
      BY <2>3 DEF RunCmd, CmdqInv, TypeOK, Accounting, CountPositive, Cmds
    <3>3. executed = 1 .. (issued - queued + 1) - 1
      BY <2>3, <3>1 DEF RunCmd, CmdqInv, TypeOK, RunInOrder, Cmds
    <3>4. executed' = 1 .. issued - queued + 1
      BY <2>3, <3>1, <3>2, <3>3 DEF RunCmd, CmdqInv, TypeOK, Cmds
    <3>5. UNCHANGED <<issued, wt, mark, lost>>
      BY <2>3 DEF RunCmd, waitVars
    <3>6. QED
      BY <3>1, <3>2, <3>3, <3>4, <3>5 DEF Commands!RunOldest, Fits
  <2>4. ASSUME Fits', WaitAsync PROVE Fits /\ Commands!BeginWait
    BY <2>4 DEF WaitAsync, history, Fits, Commands!BeginWait
  <2>5. ASSUME Fits', WaitRecheck, wt' = "idle" PROVE Fits /\ Commands!EndWait
    <3>1. Fits /\ UNCHANGED <<issued, executed, mark, lost>> /\ wt = "woken"
      BY <2>5 DEF WaitRecheck, history, Fits
    <3>2. queued = 0
      BY <2>5 DEF WaitRecheck, CmdqInv, TypeOK
    <3>3. executed = 1 .. issued
      BY <3>1, <3>2 DEF CmdqInv, TypeOK, CountPositive, RunInOrder, Cmds
    <3>4. 1 .. mark \subseteq executed
      BY <3>3 DEF CmdqInv, TypeOK, Accounting, Cmds
    <3>5. QED
      BY <2>5, <3>1, <3>4 DEF Commands!EndWait, Fits
  <2>6. ASSUME WaitRecheck, wt' # "idle" PROVE UNCHANGED Commands!vars
    BY <2>6 DEF WaitRecheck, history, Fits
  <2>7. ASSUME NEW p \in Producers, AddTask(p), Fits' PROVE UNCHANGED Commands!vars
    BY <2>7 DEF AddTask, waitVars, Fits
  <2>8. ASSUME WorkerTake \/ WorkerReset PROVE UNCHANGED Commands!vars
    BY <2>8 DEF WorkerTake, WorkerReset, waitVars, history, Fits
  <2>9. ASSUME TaskStart \/ Retire PROVE UNCHANGED Commands!vars
    BY <2>9 DEF TaskStart, Retire, LoopTest, history, Fits
  <2>10. ASSUME UNCHANGED vars PROVE UNCHANGED Commands!vars
    BY <2>10 DEF vars, waitVars, history, Fits
  <2>11. ASSUME Fits', NEW p \in Producers, DoAsync(p) PROVE Fits
    BY <2>11 DEF DoAsync, Fits
  <2>12. QED
    BY <2>1, <2>2, <2>3, <2>4, <2>5, <2>6, <2>7, <2>8, <2>9, <2>10, <2>11
       DEF Next, Worker
<1>3. QED
  BY CmdqInvAlways, <1>1, <1>2, PTL DEF Spec, ImplementsCommands, Commands!Spec
=============================================================================
