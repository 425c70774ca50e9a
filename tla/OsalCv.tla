------------------------------- MODULE OsalCv -------------------------------
(***************************************************************************)
(* Mutexes and condition variables of the FreeRTOS port                    *)
(* (port/osal/freertos/osal_freertos.c), used the way urtwn_wait_async and *)
(* usb_rem_task_wait use them: waiters loop on a predicate that one other  *)
(* thread makes true and false again, all of it under the mutex.           *)
(*                                                                         *)
(* A condition variable is a count of registered waiters and a counting    *)
(* semaphore; a broadcast gives one token per waiter counted.  A task      *)
(* woken by a token has to take it like any other, so a later waiter may   *)
(* be faster.  The section between take and give of the cv's own lock is   *)
(* one step.                                                               *)
(***************************************************************************)
EXTENDS Naturals, FiniteSets

CONSTANTS
  Waiters,     \* threads that wait for the predicate
  Timed,       \* those of them that use wlan_cv_timedwait
  MaxRounds    \* bound: how often the predicate becomes true

Setter == "setter"
Free == "free"

ASSUME ConstantsAssumption ==
  /\ Timed \subseteq Waiters /\ IsFiniteSet(Waiters) /\ MaxRounds \in Nat
  /\ Setter \notin Waiters /\ Free \notin Waiters

VARIABLES
  m,         \* holder of the mutex
  waiters,   \* *hc_cond_waiters(cv)
  sem,       \* tokens in hc_cond_sem(cv)
  pred,      \* the predicate
  n,         \* wlan_cv_broadcast: tokens still to give
  rounds,    \* how often the predicate has become true
  pc         \* where each thread is

vars == <<m, waiters, sem, pred, n, rounds, pc>>

Threads == Waiters \cup {Setter}

Goto(t, l) == pc' = [pc EXCEPT ![t] = l]

-----------------------------------------------------------------------------
(* A waiter: mutex_enter; while (!pred) cv_wait; mutex_exit *)

Begin(w) ==
  /\ pc[w] = "idle" /\ rounds < MaxRounds
  /\ Goto(w, "enter")
  /\ UNCHANGED <<m, waiters, sem, pred, n, rounds>>

\* wlan_mutex_enter, first and on the way out of the wait.
Enter(w) ==
  /\ pc[w] = "enter" /\ m = Free
  /\ m' = w
  /\ Goto(w, "test")
  /\ UNCHANGED <<waiters, sem, pred, n, rounds>>

\* The predicate holds: leave the loop.
Leave(w) ==
  /\ pc[w] = "test" /\ pred
  /\ m' = Free
  /\ Goto(w, "idle")
  /\ UNCHANGED <<waiters, sem, pred, n, rounds>>

\* It does not: register as a waiter, the mutex still held ...
Register(w) ==
  /\ pc[w] = "test" /\ ~ pred
  /\ waiters' = waiters + 1
  /\ Goto(w, "exit")
  /\ UNCHANGED <<m, sem, pred, n, rounds>>

\* ... then release it ...
ExitM(w) ==
  /\ pc[w] = "exit"
  /\ m' = Free
  /\ Goto(w, "take")
  /\ UNCHANGED <<waiters, sem, pred, n, rounds>>

\* ... and take a token, whoever it was meant for.
TakeToken(w) ==
  /\ pc[w] = "take" /\ sem > 0
  /\ sem' = sem - 1
  /\ Goto(w, "deregister")
  /\ UNCHANGED <<m, waiters, pred, n, rounds>>

\* The wait of wlan_cv_timedwait runs out.
Timeout(w) ==
  /\ pc[w] = "take" /\ w \in Timed
  /\ Goto(w, "deregister")
  /\ UNCHANGED <<m, waiters, sem, pred, n, rounds>>

Deregister(w) ==
  /\ pc[w] = "deregister"
  /\ waiters' = waiters - 1
  /\ Goto(w, "enter")
  /\ UNCHANGED <<m, sem, pred, n, rounds>>

-----------------------------------------------------------------------------
(* The thread that changes the predicate. *)

\* Mutant: one waiter too few is counted.
CountMissing ==
  /\ pc[Setter] = "count"
  /\ n' = IF waiters > 1 THEN waiters - 1 ELSE waiters
  /\ Goto(Setter, "give")
  /\ UNCHANGED <<m, waiters, sem, pred, rounds>>

SetterEnter ==
  /\ pc[Setter] = "idle" /\ m = Free
  /\ m' = Setter
  /\ Goto(Setter, "change")
  /\ UNCHANGED <<waiters, sem, pred, n, rounds>>

\* A new command: the predicate is false again, nobody is told.
ClearPred ==
  /\ pc[Setter] = "change" /\ pred
  /\ pred' = FALSE /\ m' = Free
  /\ Goto(Setter, "idle")
  /\ UNCHANGED <<waiters, sem, n, rounds>>

\* The work is done: wlan_cv_broadcast follows, with the mutex held.
SetPred ==
  /\ pc[Setter] = "change" /\ ~ pred /\ rounds < MaxRounds
  /\ pred' = TRUE /\ rounds' = rounds + 1
  /\ Goto(Setter, "count")
  /\ UNCHANGED <<m, waiters, sem, n>>

\* The broadcast reads the number of waiters ...
Count ==
  /\ pc[Setter] = "count"
  /\ n' = waiters
  /\ Goto(Setter, "give")
  /\ UNCHANGED <<m, waiters, sem, pred, rounds>>

\* ... and gives the tokens one by one.
Give ==
  /\ pc[Setter] = "give" /\ n > 0
  /\ sem' = sem + 1 /\ n' = n - 1
  /\ UNCHANGED <<m, waiters, pred, rounds, pc>>

Given ==
  /\ pc[Setter] = "give" /\ n = 0
  /\ m' = Free
  /\ Goto(Setter, IF rounds = MaxRounds THEN "over" ELSE "idle")
  /\ UNCHANGED <<waiters, sem, pred, n, rounds>>

-----------------------------------------------------------------------------

Init ==
  /\ m = Free /\ waiters = 0 /\ sem = 0
  /\ pred = FALSE /\ n = 0 /\ rounds = 0
  /\ pc = [t \in Threads |-> "idle"]

WaiterSteps(w) ==
  Enter(w) \/ Leave(w) \/ Register(w) \/ ExitM(w) \/ TakeToken(w) \/ Timeout(w) \/ Deregister(w)

SetterSteps == SetterEnter \/ ClearPred \/ SetPred \/ Count \/ Give \/ Given

Next ==
  \/ \E w \in Waiters : Begin(w) \/ WaiterSteps(w)
  \/ SetterSteps

Spec == Init /\ [][Next]_vars

\* Tasks that can run do; a FreeRTOS mutex and a semaphore go to the task
\* that has waited for them, not for ever to others.
FairSpec ==
  /\ Spec
  /\ WF_vars(SetterSteps) /\ SF_vars(SetterEnter)
  /\ \A w \in Waiters : WF_vars(WaiterSteps(w)) /\ SF_vars(Enter(w)) /\ SF_vars(TakeToken(w))

-----------------------------------------------------------------------------
(* Properties *)

\* The types.
TypeOK ==
  /\ m \in Threads \cup {Free}
  /\ waiters \in 0 .. Cardinality(Waiters)
  /\ sem \in 0 .. MaxRounds * Cardinality(Waiters) /\ n \in 0 .. Cardinality(Waiters)
  /\ pred \in BOOLEAN /\ rounds \in 0 .. MaxRounds
  /\ pc \in [Threads -> {"idle", "enter", "test", "exit", "take", "deregister",
                         "change", "count", "give", "over"}]

Blocked == {w \in Waiters : pc[w] = "take"}

\* A broadcast leaves nobody behind: while the predicate is true, there are
\* at least as many tokens, given or still to be given, as there are
\* threads blocked in the wait, although a token is not addressed to
\* anybody, waiters come and go while the broadcast runs, and a waiter may
\* time out at the same moment.
TokensSuffice ==
  pred /\ pc[Setter] # "count" => Cardinality(Blocked) <= sem + n

\* The two together: the counts stay in their ranges and suffice.
CvInv == TypeOK /\ TokensSuffice

\* Once the predicate stays true every waiter gets out.
WaitersReturn ==
  \A w \in Waiters : (pc[Setter] = "over") ~> (pc[w] = "idle")

=============================================================================
