------------------------------- MODULE WpaJobs -------------------------------
(***************************************************************************)
(* The marshalled control jobs of port/wpa/supp_main_freertos.c.           *)
(*                                                                         *)
(* A shell thread calls wpa_job_run(): it allocates a job, publishes it in *)
(* the single slot wpa_job_cur and polls it every 10 ms until the eloop    *)
(* task has run it or the timeout expires.  wpa_process_jobs() runs on the *)
(* eloop task.  The two sides agree, through started/done/abandoned, on    *)
(* which of them frees the job.                                            *)
(*                                                                         *)
(* All accesses to the slot and to the three flags are made with           *)
(* wpa_job_mtx held, so a critical section is one step; the frees and the  *)
(* job's function run outside it and are steps of their own.  A job is a   *)
(* heap cell that a later calloc() may return again.                       *)
(***************************************************************************)
EXTENDS Naturals, FiniteSets

CONSTANTS Callers,   \* threads that call wpa_port_connect/disconnect/status
          Jobs,      \* heap cells calloc() can return
          Polls,     \* timeout_ms / 10: the polls before the caller gives up
          NoJob      \* the NULL job pointer

ASSUME JobsAssumption == NoJob \notin Jobs
ASSUME PollsAssumption == Polls \in Nat

VARIABLES
  heap,          \* the allocated jobs
  started, done, abandoned,   \* the flags of each job: sets of jobs
  wpa_job_cur,   \* the published job or NoJob
  pc, cjob, waited, rc,       \* per caller: position, `job', `waited', result
  wpc, wjob,     \* the eloop task inside wpa_process_jobs and its `job'
  ran            \* history: jobs whose function was called since calloc()

vars == <<heap, started, done, abandoned, wpa_job_cur,
          pc, cjob, waited, rc, wpc, wjob, ran>>
flags == <<started, done, abandoned>>
callerVars == <<pc, cjob, waited, rc>>
workerVars == <<wpc, wjob, ran>>

CallerPC == {"idle", "publish", "poll", "sleep", "free"}
WorkerPC == {"idle", "run", "finish", "free"}
Ok == 0
Fail == 1    \* the code returns -1

TypeOK ==
  /\ heap \subseteq Jobs /\ ran \subseteq Jobs
  /\ started \subseteq Jobs /\ done \subseteq Jobs /\ abandoned \subseteq Jobs
  /\ wpa_job_cur \in Jobs \cup {NoJob}
  /\ pc \in [Callers -> CallerPC]
  /\ cjob \in [Callers -> Jobs \cup {NoJob}]
  /\ waited \in [Callers -> 0..Polls]
  /\ rc \in [Callers -> {Ok, Fail}]
  /\ wpc \in WorkerPC
  /\ wjob \in Jobs \cup {NoJob}

Init ==
  /\ heap = {} /\ started = {} /\ done = {} /\ abandoned = {} /\ ran = {}
  /\ wpa_job_cur = NoJob
  /\ pc = [c \in Callers |-> "idle"]
  /\ cjob = [c \in Callers |-> NoJob]
  /\ waited = [c \in Callers |-> 0]
  /\ rc = [c \in Callers |-> Ok]
  /\ wpc = "idle" /\ wjob = NoJob

-----------------------------------------------------------------------------
(* wpa_job_run, on thread c *)

\* calloc() and the copy of the argument: a zeroed job nobody else knows.
Alloc(c) ==
  /\ pc[c] = "idle"
  /\ \E j \in Jobs \ heap :
       /\ heap' = heap \cup {j}
       /\ started' = started \ {j}
       /\ done' = done \ {j}
       /\ abandoned' = abandoned \ {j}
       /\ ran' = ran \ {j}
       /\ cjob' = [cjob EXCEPT ![c] = j]
  /\ waited' = [waited EXCEPT ![c] = 0]
  /\ pc' = [pc EXCEPT ![c] = "publish"]
  /\ UNCHANGED <<wpa_job_cur, rc, wpc, wjob>>

\* calloc() or the argument's malloc() failed.
AllocFail(c) ==
  /\ pc[c] = "idle"
  /\ rc' = [rc EXCEPT ![c] = Fail]
  /\ UNCHANGED <<heap, flags, wpa_job_cur, pc, cjob, waited, workerVars>>

\* One job at a time: a busy slot makes the call fail.
Publish(c) ==
  /\ pc[c] = "publish"
  /\ IF wpa_job_cur # NoJob
     THEN /\ pc' = [pc EXCEPT ![c] = "free"]
          /\ rc' = [rc EXCEPT ![c] = Fail]
          /\ UNCHANGED wpa_job_cur
     ELSE /\ wpa_job_cur' = cjob[c]
          /\ pc' = [pc EXCEPT ![c] = "poll"]
          /\ UNCHANGED rc
  /\ UNCHANGED <<heap, flags, cjob, waited, workerVars>>

PollDone(c) ==
  /\ pc[c] = "poll" /\ cjob[c] \in done
  /\ rc' = [rc EXCEPT ![c] = Ok]
  /\ pc' = [pc EXCEPT ![c] = "free"]
  /\ UNCHANGED <<heap, flags, wpa_job_cur, cjob, waited, workerVars>>

\* A timeout that leaves the job in the slot.
PollTimeoutKeepSlot(c) ==
  /\ pc[c] = "poll" /\ cjob[c] \notin done /\ waited[c] >= Polls
  /\ abandoned' = abandoned \cup {cjob[c]}
  /\ rc' = [rc EXCEPT ![c] = Fail]
  /\ IF cjob[c] \in started
     THEN /\ pc' = [pc EXCEPT ![c] = "idle"]
          /\ cjob' = [cjob EXCEPT ![c] = NoJob]
     ELSE /\ pc' = [pc EXCEPT ![c] = "free"]
          /\ UNCHANGED cjob
  /\ UNCHANGED <<heap, started, done, wpa_job_cur, waited, workerVars>>

\* A timeout that does not tell the eloop task.
PollTimeoutSilent(c) ==
  /\ pc[c] = "poll" /\ cjob[c] \notin done /\ waited[c] >= Polls
  /\ rc' = [rc EXCEPT ![c] = Fail]
  /\ IF cjob[c] \in started
     THEN /\ pc' = [pc EXCEPT ![c] = "idle"]
          /\ cjob' = [cjob EXCEPT ![c] = NoJob]
          /\ UNCHANGED wpa_job_cur
     ELSE /\ wpa_job_cur' = NoJob
          /\ pc' = [pc EXCEPT ![c] = "free"]
          /\ UNCHANGED cjob
  /\ UNCHANGED <<heap, flags, waited, workerVars>>

\* The timeout: a job that was not started is withdrawn and freed here, a
\* started one is left to the eloop task.
PollTimeout(c) ==
  /\ pc[c] = "poll" /\ cjob[c] \notin done /\ waited[c] >= Polls
  /\ abandoned' = abandoned \cup {cjob[c]}
  /\ rc' = [rc EXCEPT ![c] = Fail]
  /\ IF cjob[c] \in started
     THEN /\ pc' = [pc EXCEPT ![c] = "idle"]
          /\ cjob' = [cjob EXCEPT ![c] = NoJob]
          /\ UNCHANGED wpa_job_cur
     ELSE /\ wpa_job_cur' = NoJob
          /\ pc' = [pc EXCEPT ![c] = "free"]
          /\ UNCHANGED cjob
  /\ UNCHANGED <<heap, started, done, waited, workerVars>>

PollAgain(c) ==
  /\ pc[c] = "poll" /\ cjob[c] \notin done /\ waited[c] < Polls
  /\ pc' = [pc EXCEPT ![c] = "sleep"]
  /\ UNCHANGED <<heap, flags, wpa_job_cur, cjob, waited, rc, workerVars>>

\* A sleep that is not added to the time waited.
SleepUncounted(c) ==
  /\ pc[c] = "sleep"
  /\ pc' = [pc EXCEPT ![c] = "poll"]
  /\ UNCHANGED <<heap, flags, wpa_job_cur, cjob, waited, rc, workerVars>>

Sleep(c) ==
  /\ pc[c] = "sleep"
  /\ waited' = [waited EXCEPT ![c] = @ + 1]
  /\ pc' = [pc EXCEPT ![c] = "poll"]
  /\ UNCHANGED <<heap, flags, wpa_job_cur, cjob, rc, workerVars>>

\* wpa_job_free() on the way out of wpa_job_run.
CallerFree(c) ==
  /\ pc[c] = "free"
  /\ heap' = heap \ {cjob[c]}
  /\ cjob' = [cjob EXCEPT ![c] = NoJob]
  /\ pc' = [pc EXCEPT ![c] = "idle"]
  /\ UNCHANGED <<flags, wpa_job_cur, waited, rc, workerVars>>

-----------------------------------------------------------------------------
(* wpa_process_jobs, on the eloop task *)

Take ==
  /\ wpc = "idle" /\ wpa_job_cur # NoJob
  /\ wjob' = wpa_job_cur
  /\ started' = started \cup {wpa_job_cur}
  /\ wpc' = "run"
  /\ UNCHANGED <<heap, done, abandoned, wpa_job_cur, callerVars, ran>>

Run ==
  /\ wpc = "run"
  /\ ran' = ran \cup {wjob}
  /\ wpc' = "finish"
  /\ UNCHANGED <<heap, flags, wpa_job_cur, callerVars, wjob>>

\* A finish that leaves the job in the slot.
FinishKeepSlot ==
  /\ wpc = "finish"
  /\ done' = done \cup {wjob}
  /\ IF wjob \in abandoned
     THEN wpc' = "free" /\ UNCHANGED wjob
     ELSE wpc' = "idle" /\ wjob' = NoJob
  /\ UNCHANGED <<heap, started, abandoned, wpa_job_cur, callerVars, ran>>

\* `done' and the reading of `abandoned' are one critical section.
Finish ==
  /\ wpc = "finish"
  /\ done' = done \cup {wjob}
  /\ wpa_job_cur' = NoJob
  /\ IF wjob \in abandoned
     THEN wpc' = "free" /\ UNCHANGED wjob
     ELSE wpc' = "idle" /\ wjob' = NoJob
  /\ UNCHANGED <<heap, started, abandoned, callerVars, ran>>

WorkerFree ==
  /\ wpc = "free"
  /\ heap' = heap \ {wjob}
  /\ wjob' = NoJob
  /\ wpc' = "idle"
  /\ UNCHANGED <<flags, wpa_job_cur, callerVars, ran>>

-----------------------------------------------------------------------------
Caller(c) == \/ Publish(c) \/ PollDone(c) \/ PollTimeout(c) \/ PollAgain(c)
             \/ Sleep(c) \/ CallerFree(c)
Worker == Take \/ Run \/ Finish \/ WorkerFree

Next == \/ \E c \in Callers : Alloc(c) \/ AllocFail(c) \/ Caller(c)
        \/ Worker

Spec == Init /\ [][Next]_vars

\* A thread inside wpa_job_run keeps being scheduled; nothing is assumed of
\* the eloop task, which may be stuck in a job's function or gone.
FairSpec == Spec /\ \A c \in Callers : WF_vars(Caller(c))

\* The eloop task keeps calling wpa_process_jobs and a job's function returns:
\* assumed only by the properties that need it.
WorkerFair == WF_vars(Worker)

-----------------------------------------------------------------------------
\* No thread ever touches a job that was freed: every pointer a caller, the
\* eloop task or the slot holds refers to an allocated job.  A double free
\* would be the second free of such a pointer.
NoUseAfterFree ==
  /\ \A c \in Callers : pc[c] # "idle" => cjob[c] \in heap
  /\ wpc # "idle" => wjob \in heap
  /\ wpa_job_cur # NoJob => wpa_job_cur \in heap

\* Every allocated job has exactly one thread that will free it: one caller
\* still inside wpa_job_run, or the eloop task once the caller abandoned it.
OneOwner ==
  \A j \in heap :
    LET holders == {c \in Callers : cjob[c] = j}
    IN  \/ \E c \in Callers : holders = {c} /\ ~ (wjob = j /\ wpc = "free")
        \/ holders = {} /\ wjob = j /\ wpc # "idle" /\ j \in abandoned

\* wpa_job_run returns 0 only when the job's function was called, and a job
\* that the caller itself frees after a failure was never called: -1 from a
\* withdrawn or a rejected job means that nothing happened.
ResultTruthful ==
  \A c \in Callers :
    pc[c] = "free" => (rc[c] = Ok <=> cjob[c] \in ran)

\* A job's function is called at most once per wpa_job_run call.
RunsOnce == [][Run => wjob \notin ran]_vars

\* Every call of wpa_job_run returns, whatever the eloop task does.
CallReturns == \A c \in Callers : pc[c] = "publish" ~> pc[c] = "idle"

\* Every job is freed in the end, the abandoned ones too: no leak, as long as
\* the eloop task lives.
EveryJobFreed == WorkerFair => \A j \in Jobs : j \in heap ~> j \notin heap

-----------------------------------------------------------------------------
(* The inductive invariant of the hand-over: what each thread may assume   *)
(* about the job it holds.                                                 *)

Holder(j) == \E c \in Callers : cjob[c] = j

CallerInv(c) ==
  LET j == cjob[c] IN
  /\ pc[c] = "idle" <=> j = NoJob
  /\ j # NoJob => j \in heap
  /\ pc[c] = "publish" =>
       /\ j # wpa_job_cur /\ j # wjob
       /\ j \notin started /\ j \notin done /\ j \notin abandoned /\ j \notin ran
  /\ pc[c] \in {"poll", "sleep"} =>
       /\ j \notin abandoned
       /\ \/ /\ j = wpa_job_cur /\ j \notin done
             /\ j \in started <=> wjob = j
             /\ j \notin started => j \notin ran
          \/ j # wpa_job_cur /\ j \in done /\ j # wjob /\ j \in ran
  /\ pc[c] = "sleep" => waited[c] < Polls
  /\ pc[c] = "free" =>
       j # wpa_job_cur /\ j # wjob /\ (rc[c] = Ok <=> j \in ran)

WorkerInv ==
  /\ wpc = "idle" <=> wjob = NoJob
  /\ wjob # NoJob => wjob \in heap
  /\ wpc \in {"run", "finish"} =>
       /\ wjob = wpa_job_cur /\ wjob \in started /\ wjob \notin done
       /\ wjob \in abandoned <=> ~ Holder(wjob)
       /\ wpc = "run" <=> wjob \notin ran
  /\ wpc = "free" => wjob # wpa_job_cur /\ wjob \in abandoned /\ ~ Holder(wjob)

SlotInv ==
  wpa_job_cur # NoJob =>
    /\ wpa_job_cur \in heap
    /\ wjob # wpa_job_cur =>
         \E c \in Callers : cjob[c] = wpa_job_cur /\ pc[c] \in {"poll", "sleep"}

Distinct ==
  \A c, d \in Callers : cjob[c] = cjob[d] /\ cjob[c] # NoJob => c = d

Owned == \A j \in heap : Holder(j) \/ (wjob = j /\ j \in abandoned)

\* What every thread of the hand-over relies on, made inductive: who holds a
\* job, who was told about it, and what the flags say about the other side.
HandOver ==
  /\ TypeOK
  /\ \A c \in Callers : CallerInv(c)
  /\ WorkerInv /\ SlotInv /\ Distinct /\ Owned
=============================================================================
