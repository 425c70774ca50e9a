---------------------------- MODULE SupplicantProofs ----------------------------
(***************************************************************************)
(* Proofs about the supplicant's task and its callers, for any number of   *)
(* callers, handlers and events, any heap, any timeout and any length of   *)
(* the ring:                                                               *)
(*                                                                         *)
(* WpaJobs: the hand-over of a job between the caller and the eloop task   *)
(* neither touches freed memory, nor leaks, nor lies about its result.     *)
(*                                                                         *)
(* Eloop: the ring of driver events holds exactly what was accepted, and   *)
(* the list of timeouts stays sorted.                                      *)
(***************************************************************************)
EXTENDS WpaJobs, Eloop, FiniteSetTheorems, WellFoundedInduction, TLAPS

-----------------------------------------------------------------------------
(* WpaJobs: the hand-over of a job *)

\* The hand-over invariant holds when the supplicant starts.
LEMMA HandOverInit == Init => HandOver
  BY JobsAssumption, PollsAssumption, SMTT(30)
  DEF Init, HandOver, TypeOK, CallerPC, WorkerPC, Ok, Fail, CallerInv, WorkerInv,
      SlotInv, Distinct, Owned, Holder

\* Every step of a caller and of the eloop task preserves it.
LEMMA HandOverNext == HandOver /\ [Next]_vars => HandOver'
<1> SUFFICES ASSUME HandOver, [Next]_vars PROVE HandOver'
  OBVIOUS
<1> USE JobsAssumption, PollsAssumption
<1> USE DEF HandOver, flags, workerVars, callerVars
<1>1. ASSUME NEW c \in Callers, Alloc(c) PROVE HandOver'
  <2>1. TypeOK'
    BY <1>1 DEF Alloc, TypeOK, CallerPC, WorkerPC, Ok, Fail, CallerInv, WorkerInv, SlotInv
  <2>2. \A d \in Callers : CallerInv(d)'
    BY <1>1 DEF Alloc, TypeOK, CallerPC, Ok, Fail, CallerInv, WorkerInv, SlotInv, Distinct, Holder
  <2>3. WorkerInv'
    BY <1>1 DEF Alloc, TypeOK, WorkerPC, CallerInv, WorkerInv, SlotInv, Distinct, Holder
  <2>4. SlotInv'
    BY <1>1 DEF Alloc, TypeOK, CallerInv, WorkerInv, SlotInv, Distinct, Holder
  <2>5. Distinct'
    BY <1>1 DEF Alloc, TypeOK, CallerInv, Distinct
  <2>6. Owned'
    BY <1>1 DEF Alloc, TypeOK, CallerInv, WorkerInv, SlotInv, Distinct, Owned, Holder
  <2>7. QED
    BY <2>1, <2>2, <2>3, <2>4, <2>5, <2>6
<1>2. ASSUME NEW c \in Callers, AllocFail(c) PROVE HandOver'
  <2>1. TypeOK'
    BY <1>2 DEF AllocFail, TypeOK, CallerPC, WorkerPC, Ok, Fail, CallerInv, WorkerInv, SlotInv
  <2>2. \A d \in Callers : CallerInv(d)'
    BY <1>2 DEF AllocFail, TypeOK, CallerPC, Ok, Fail, CallerInv, WorkerInv, SlotInv, Distinct, Holder
  <2>3. WorkerInv'
    BY <1>2 DEF AllocFail, TypeOK, WorkerPC, CallerInv, WorkerInv, SlotInv, Distinct, Holder
  <2>4. SlotInv'
    BY <1>2 DEF AllocFail, TypeOK, CallerInv, WorkerInv, SlotInv, Distinct, Holder
  <2>5. Distinct'
    BY <1>2 DEF AllocFail, TypeOK, CallerInv, Distinct
  <2>6. Owned'
    BY <1>2 DEF AllocFail, TypeOK, CallerInv, WorkerInv, SlotInv, Distinct, Owned, Holder
  <2>7. QED
    BY <2>1, <2>2, <2>3, <2>4, <2>5, <2>6
<1>3. ASSUME NEW c \in Callers, Publish(c) PROVE HandOver'
  <2>1. TypeOK'
    BY <1>3, SMTT(30) DEF Publish, TypeOK, CallerPC, WorkerPC, Ok, Fail, CallerInv, WorkerInv, SlotInv
  <2>2. \A d \in Callers : CallerInv(d)'
    BY <1>3 DEF Publish, TypeOK, CallerPC, Ok, Fail, CallerInv, WorkerInv, SlotInv, Distinct, Holder
  <2>3. WorkerInv'
    BY <1>3 DEF Publish, TypeOK, WorkerPC, CallerInv, WorkerInv, SlotInv, Distinct, Holder
  <2>4. SlotInv'
    BY <1>3 DEF Publish, TypeOK, CallerInv, WorkerInv, SlotInv, Distinct, Holder
  <2>5. Distinct'
    BY <1>3 DEF Publish, TypeOK, CallerInv, Distinct
  <2>6. Owned'
    BY <1>3 DEF Publish, TypeOK, CallerInv, WorkerInv, SlotInv, Distinct, Owned, Holder
  <2>7. QED
    BY <2>1, <2>2, <2>3, <2>4, <2>5, <2>6
<1>4. ASSUME NEW c \in Callers, PollDone(c) PROVE HandOver'
  <2>1. TypeOK'
    BY <1>4 DEF PollDone, TypeOK, CallerPC, WorkerPC, Ok, Fail, CallerInv, WorkerInv, SlotInv
  <2>2. \A d \in Callers : CallerInv(d)'
    BY <1>4 DEF PollDone, TypeOK, CallerPC, Ok, Fail, CallerInv, WorkerInv, SlotInv, Distinct, Holder
  <2>3. WorkerInv'
    BY <1>4 DEF PollDone, TypeOK, WorkerPC, CallerInv, WorkerInv, SlotInv, Distinct, Holder
  <2>4. SlotInv'
    BY <1>4 DEF PollDone, TypeOK, CallerInv, WorkerInv, SlotInv, Distinct, Holder
  <2>5. Distinct'
    BY <1>4 DEF PollDone, TypeOK, CallerInv, Distinct
  <2>6. Owned'
    BY <1>4 DEF PollDone, TypeOK, CallerInv, WorkerInv, SlotInv, Distinct, Owned, Holder
  <2>7. QED
    BY <2>1, <2>2, <2>3, <2>4, <2>5, <2>6
<1>5. ASSUME NEW c \in Callers, PollTimeout(c) PROVE HandOver'
  <2>1. TypeOK'
    BY <1>5, SMTT(30) DEF PollTimeout, TypeOK, CallerPC, WorkerPC, Ok, Fail, CallerInv, WorkerInv, SlotInv
  <2>2. \A d \in Callers : CallerInv(d)'
    BY <1>5 DEF PollTimeout, TypeOK, CallerPC, Ok, Fail, CallerInv, WorkerInv, SlotInv, Distinct, Holder
  <2>3. WorkerInv'
    BY <1>5 DEF PollTimeout, TypeOK, WorkerPC, CallerInv, WorkerInv, SlotInv, Distinct, Holder
  <2>4. SlotInv'
    BY <1>5 DEF PollTimeout, TypeOK, CallerInv, WorkerInv, SlotInv, Distinct, Holder
  <2>5. Distinct'
    BY <1>5, SMTT(30) DEF PollTimeout, TypeOK, CallerInv, Distinct
  <2>6. Owned'
    BY <1>5, SMTT(30) DEF PollTimeout, TypeOK, CallerInv, WorkerInv, SlotInv, Distinct, Owned, Holder
  <2>7. QED
    BY <2>1, <2>2, <2>3, <2>4, <2>5, <2>6
<1>6. ASSUME NEW c \in Callers, PollAgain(c) PROVE HandOver'
  <2>1. TypeOK'
    BY <1>6, SMTT(30) DEF PollAgain, TypeOK, CallerPC, WorkerPC, Ok, Fail, CallerInv, WorkerInv, SlotInv
  <2>2. \A d \in Callers : CallerInv(d)'
    BY <1>6, SMTT(30) DEF PollAgain, TypeOK, CallerPC, Ok, Fail, CallerInv, WorkerInv, SlotInv, Distinct, Holder
  <2>3. WorkerInv'
    BY <1>6, SMTT(30) DEF PollAgain, TypeOK, WorkerPC, CallerInv, WorkerInv, SlotInv, Distinct, Holder
  <2>4. SlotInv'
    BY <1>6 DEF PollAgain, TypeOK, CallerInv, WorkerInv, SlotInv, Distinct, Holder
  <2>5. Distinct'
    BY <1>6, SMTT(30) DEF PollAgain, TypeOK, CallerInv, Distinct
  <2>6. Owned'
    BY <1>6 DEF PollAgain, TypeOK, CallerInv, WorkerInv, SlotInv, Distinct, Owned, Holder
  <2>7. QED
    BY <2>1, <2>2, <2>3, <2>4, <2>5, <2>6
<1>7. ASSUME NEW c \in Callers, Sleep(c) PROVE HandOver'
  <2>1. TypeOK'
    BY <1>7 DEF Sleep, TypeOK, CallerPC, WorkerPC, Ok, Fail, CallerInv, WorkerInv, SlotInv
  <2>2. \A d \in Callers : CallerInv(d)'
    BY <1>7 DEF Sleep, TypeOK, CallerPC, Ok, Fail, CallerInv, WorkerInv, SlotInv, Distinct, Holder
  <2>3. WorkerInv'
    BY <1>7 DEF Sleep, TypeOK, WorkerPC, CallerInv, WorkerInv, SlotInv, Distinct, Holder
  <2>4. SlotInv'
    BY <1>7 DEF Sleep, TypeOK, CallerInv, WorkerInv, SlotInv, Distinct, Holder
  <2>5. Distinct'
    BY <1>7 DEF Sleep, TypeOK, CallerInv, Distinct
  <2>6. Owned'
    BY <1>7 DEF Sleep, TypeOK, CallerInv, WorkerInv, SlotInv, Distinct, Owned, Holder
  <2>7. QED
    BY <2>1, <2>2, <2>3, <2>4, <2>5, <2>6
<1>8. ASSUME NEW c \in Callers, CallerFree(c) PROVE HandOver'
  <2>1. TypeOK'
    BY <1>8 DEF CallerFree, TypeOK, CallerPC, WorkerPC, Ok, Fail, CallerInv, WorkerInv, SlotInv
  <2>2. \A d \in Callers : CallerInv(d)'
    BY <1>8 DEF CallerFree, TypeOK, CallerPC, Ok, Fail, CallerInv, WorkerInv, SlotInv, Distinct, Holder
  <2>3. WorkerInv'
    BY <1>8 DEF CallerFree, TypeOK, WorkerPC, CallerInv, WorkerInv, SlotInv, Distinct, Holder
  <2>4. SlotInv'
    BY <1>8 DEF CallerFree, TypeOK, CallerInv, WorkerInv, SlotInv, Distinct, Holder
  <2>5. Distinct'
    BY <1>8, SMTT(30) DEF CallerFree, TypeOK, CallerInv, Distinct
  <2>6. Owned'
    BY <1>8 DEF CallerFree, TypeOK, CallerInv, WorkerInv, SlotInv, Distinct, Owned, Holder
  <2>7. QED
    BY <2>1, <2>2, <2>3, <2>4, <2>5, <2>6
<1>9. CASE Take
  <2>1. TypeOK'
    BY <1>9, SMTT(30) DEF Take, TypeOK, CallerPC, WorkerPC, Ok, Fail, CallerInv, WorkerInv, SlotInv
  <2>2. \A d \in Callers : CallerInv(d)'
    BY <1>9, SMTT(30) DEF Take, TypeOK, CallerPC, Ok, Fail, CallerInv, WorkerInv, SlotInv, Distinct, Holder
  <2>3. WorkerInv'
    BY <1>9, SMTT(30) DEF Take, TypeOK, WorkerPC, CallerInv, WorkerInv, SlotInv, Distinct, Holder
  <2>4. SlotInv'
    BY <1>9 DEF Take, TypeOK, CallerInv, WorkerInv, SlotInv, Distinct, Holder
  <2>5. Distinct'
    BY <1>9, SMTT(30) DEF Take, TypeOK, CallerInv, Distinct
  <2>6. Owned'
    BY <1>9, SMTT(30) DEF Take, TypeOK, CallerInv, WorkerInv, SlotInv, Distinct, Owned, Holder
  <2>7. QED
    BY <2>1, <2>2, <2>3, <2>4, <2>5, <2>6, SMTT(30)
<1>10. CASE Run
  <2>1. TypeOK'
    BY <1>10, SMTT(30) DEF Run, TypeOK, CallerPC, WorkerPC, Ok, Fail, CallerInv, WorkerInv, SlotInv
  <2>2. \A d \in Callers : CallerInv(d)'
    BY <1>10, SMTT(30) DEF Run, TypeOK, CallerPC, Ok, Fail, CallerInv, WorkerInv, SlotInv, Distinct, Holder
  <2>3. WorkerInv'
    BY <1>10, SMTT(30) DEF Run, TypeOK, WorkerPC, CallerInv, WorkerInv, SlotInv, Distinct, Holder
  <2>4. SlotInv'
    BY <1>10 DEF Run, TypeOK, CallerInv, WorkerInv, SlotInv, Distinct, Holder
  <2>5. Distinct'
    BY <1>10, SMTT(30) DEF Run, TypeOK, CallerInv, Distinct
  <2>6. Owned'
    BY <1>10, SMTT(30) DEF Run, TypeOK, CallerInv, WorkerInv, SlotInv, Distinct, Owned, Holder
  <2>7. QED
    BY <2>1, <2>2, <2>3, <2>4, <2>5, <2>6
<1>11. CASE Finish
  <2>1. TypeOK'
    BY <1>11, SMTT(30) DEF Finish, TypeOK, CallerPC, WorkerPC, Ok, Fail, CallerInv, WorkerInv, SlotInv
  <2>2. \A d \in Callers : CallerInv(d)'
    BY <1>11, SMTT(30) DEF Finish, TypeOK, CallerPC, Ok, Fail, CallerInv, WorkerInv, SlotInv, Distinct, Holder
  <2>3. WorkerInv'
    BY <1>11, SMTT(30) DEF Finish, TypeOK, WorkerPC, CallerInv, WorkerInv, SlotInv, Distinct, Holder
  <2>4. SlotInv'
    BY <1>11, SMTT(30) DEF Finish, TypeOK, CallerInv, WorkerInv, SlotInv, Distinct, Holder
  <2>5. Distinct'
    BY <1>11, SMTT(30) DEF Finish, TypeOK, CallerInv, Distinct
  <2>6. Owned'
    BY <1>11, SMTT(30) DEF Finish, TypeOK, CallerInv, WorkerInv, SlotInv, Distinct, Owned, Holder
  <2>7. QED
    BY <2>1, <2>2, <2>3, <2>4, <2>5, <2>6
<1>12. CASE WorkerFree
  <2>1. TypeOK'
    BY <1>12, SMTT(30) DEF WorkerFree, TypeOK, CallerPC, WorkerPC, Ok, Fail, CallerInv, WorkerInv, SlotInv
  <2>2. \A d \in Callers : CallerInv(d)'
    BY <1>12, SMTT(30) DEF WorkerFree, TypeOK, CallerPC, Ok, Fail, CallerInv, WorkerInv, SlotInv, Distinct, Holder
  <2>3. WorkerInv'
    BY <1>12, SMTT(30) DEF WorkerFree, TypeOK, WorkerPC, CallerInv, WorkerInv, SlotInv, Distinct, Holder
  <2>4. SlotInv'
    BY <1>12 DEF WorkerFree, TypeOK, CallerInv, WorkerInv, SlotInv, Distinct, Holder
  <2>5. Distinct'
    BY <1>12, SMTT(30) DEF WorkerFree, TypeOK, CallerInv, Distinct
  <2>6. Owned'
    BY <1>12, SMTT(30) DEF WorkerFree, TypeOK, CallerInv, WorkerInv, SlotInv, Distinct, Owned, Holder
  <2>7. QED
    BY <2>1, <2>2, <2>3, <2>4, <2>5, <2>6
<1>13. CASE UNCHANGED vars
  BY <1>13 DEF vars, TypeOK, CallerInv, WorkerInv, SlotInv, Distinct, Owned, Holder
<1>14. QED
  BY <1>1, <1>2, <1>3, <1>4, <1>5, <1>6, <1>7, <1>8, <1>9, <1>10, <1>11, <1>12, <1>13 DEF Next, Caller, Worker

\* The hand-over invariant holds in every reachable state.
THEOREM HandOverAlways == Spec => []HandOver
  BY HandOverInit, HandOverNext, PTL DEF Spec

\* No thread touches a job after it was freed: wpa_job_run and
\* wpa_process_jobs never race each other into a use after free.
THEOREM JobMemorySafe == Spec => []NoUseAfterFree
<1>1. HandOver => NoUseAfterFree
  BY DEF HandOver, TypeOK, CallerInv, WorkerInv, SlotInv, NoUseAfterFree
<1>2. QED
  BY <1>1, HandOverAlways, PTL

\* Exactly one thread is going to free each allocated job.
THEOREM JobHasOneOwner == Spec => []OneOwner
<1>1. HandOver => OneOwner
  <2> SUFFICES ASSUME HandOver, NEW j \in heap
               PROVE  LET holders == {c \in Callers : cjob[c] = j}
                      IN  \/ \E c \in Callers : holders = {c} /\ ~ (wjob = j /\ wpc = "free")
                          \/ holders = {} /\ wjob = j /\ wpc # "idle" /\ j \in abandoned
    BY DEF OneOwner
  <2>1. j # NoJob
    BY JobsAssumption DEF HandOver, TypeOK
  <2>2. CASE Holder(j)
    <3>1. PICK c \in Callers : cjob[c] = j
      BY <2>2 DEF Holder
    <3>2. {d \in Callers : cjob[d] = j} = {c}
      BY <2>1, <3>1 DEF HandOver, Distinct
    <3>3. ~ (wjob = j /\ wpc = "free")
      BY <2>2 DEF HandOver, WorkerInv
    <3>4. QED
      BY <3>2, <3>3
  <2>3. CASE ~ Holder(j)
    BY <2>1, <2>3 DEF HandOver, Owned, Holder, WorkerInv
  <2>4. QED
    BY <2>2, <2>3
<1>2. QED
  BY <1>1, HandOverAlways, PTL

\* The value wpa_job_run returns says whether the job's function was called.
THEOREM JobResultTruthful == Spec => []ResultTruthful
<1>1. HandOver => ResultTruthful
  BY DEF HandOver, CallerInv, ResultTruthful
<1>2. QED
  BY <1>1, HandOverAlways, PTL

\* The eloop task never calls a job's function twice.
THEOREM JobRunsOnce == Spec => RunsOnce
<1>1. HandOver /\ [Next]_vars => [Run => wjob \notin ran]_vars
  BY DEF HandOver, WorkerInv, Run
<1>2. QED
  BY <1>1, HandOverAlways, PTL DEF Spec, RunsOnce

-----------------------------------------------------------------------------
(* Eloop: the ring of driver events *)

\* The ring of driver events has its types and holds what was accepted.
RingInv ==
  /\ wpa_queue \in [Slots -> Events \cup {None}]
  /\ wpa_queue_head \in Slots /\ wpa_queue_tail \in Slots
  /\ accepted \in Seq(Events)
  /\ EventsExact

\* An index that has passed the end of the ring at most once, wrapped.
Wrap(x) == IF x < QueueLen THEN x ELSE x - QueueLen

\* EventsExact without remainders, about a ring q with head h and tail t and
\* the events a: Len(a) entries lead from h to t and hold a.
Holds(q, h, t, a) ==
  /\ Len(a) < QueueLen
  /\ t = Wrap(h + Len(a))
  /\ \A i \in 1 .. Len(a) : a[i] = q[Wrap(h + i - 1)]

\* The indexes of the ring wrap once.
LEMMA Wraps == \A x \in 0 .. 2 * QueueLen - 1 : x % QueueLen = Wrap(x)
<1> SUFFICES ASSUME NEW x \in 0 .. 2 * QueueLen - 1 PROVE x % QueueLen = Wrap(x)
  OBVIOUS
<1>1. CASE x < QueueLen
  BY <1>1, EloopAssumption DEF Wrap
<1>2. CASE x >= QueueLen
  BY <1>2, EloopAssumption DEF Wrap
<1>3. QED
  BY <1>1, <1>2, EloopAssumption

\* EventsExact says what Holds says.
LEMMA ExactHolds ==
  ASSUME NEW q, NEW h \in Slots, NEW t \in Slots, NEW a \in Seq(Events)
  PROVE  (/\ (t + QueueLen - h) % QueueLen = Len(a)
          /\ \A i \in DOMAIN a : a[i] = q[(h + i - 1) % QueueLen]) <=> Holds(q, h, t, a)
<1>1. QueueLen \in Nat \ {0}
  BY EloopAssumption
<1>2. Len(a) \in Nat
  OBVIOUS
<1>3. DOMAIN a = 1 .. Len(a)
  OBVIOUS
<1>4. t + QueueLen - h \in 0 .. 2 * QueueLen - 1
  BY <1>1 DEF Slots
<1>5. (t + QueueLen - h) % QueueLen = Wrap(t + QueueLen - h)
  BY <1>4, Wraps
<1>6. Wrap(t + QueueLen - h) = Len(a) <=> Len(a) < QueueLen /\ t = Wrap(h + Len(a))
  BY <1>1, <1>2 DEF Slots, Wrap
<1>7. ASSUME Len(a) < QueueLen, NEW i \in 1 .. Len(a)
      PROVE  (h + i - 1) % QueueLen = Wrap(h + i - 1)
  <2>1. h + i - 1 \in 0 .. 2 * QueueLen - 1
    BY <1>1, <1>2, <1>7 DEF Slots
  <2>2. QED
    BY <2>1, Wraps
<1>8. QED
  BY <1>3, <1>5, <1>6, <1>7 DEF Holds

\* The next index of the ring.
LEMMA NextIndex ==
  ASSUME NEW x \in Slots
  PROVE  (x + 1) % QueueLen = Wrap(x + 1) /\ Wrap(x + 1) \in Slots
<1>1. QueueLen \in Nat \ {0, 1}
  BY EloopAssumption
<1>2. x + 1 \in 0 .. 2 * QueueLen - 1
  BY <1>1 DEF Slots
<1>3. (x + 1) % QueueLen = Wrap(x + 1)
  BY <1>2, Wraps
<1>4. Wrap(x + 1) \in Slots
  BY <1>1 DEF Slots, Wrap
<1>5. QED
  BY <1>3, <1>4

\* A new event goes into the slot at the tail, which is not among the filled
\* ones.
LEMMA HoldsAppend ==
  ASSUME NEW q \in [Slots -> Events \cup {None}], NEW h \in Slots, NEW t \in Slots,
         NEW a \in Seq(Events), NEW e \in Events,
         Holds(q, h, t, a), Wrap(t + 1) # h
  PROVE  Holds([q EXCEPT ![t] = e], h, Wrap(t + 1), Append(a, e))
<1> DEFINE n == Len(a)
           b == Append(a, e)
           r == [q EXCEPT ![t] = e]
<1>1. QueueLen \in Nat \ {0, 1}
  BY EloopAssumption
<1>2. n \in Nat /\ Len(b) = n + 1
  OBVIOUS
<1>3. n < QueueLen /\ t = Wrap(h + n) /\ \A i \in 1 .. n : a[i] = q[Wrap(h + i - 1)]
  BY DEF Holds
<1>4. n + 1 < QueueLen /\ Wrap(t + 1) = Wrap(h + (n + 1))
  <2>1. n < QueueLen /\ t = Wrap(h + n) /\ Wrap(t + 1) # h /\ h \in Slots /\ n \in Nat
    BY <1>2, <1>3
  <2> HIDE DEF n
  <2>2. QED
    BY <1>1, <2>1 DEF Wrap, Slots
<1>5. ASSUME NEW i \in 1 .. n + 1
      PROVE  b[i] = r[Wrap(h + i - 1)]
  <2>1. CASE i = n + 1
    <3>1. Wrap(h + i - 1) = t
      BY <1>2, <1>3, <2>1 DEF Wrap, Slots
    <3>2. b[i] = e
      BY <2>1
    <3>3. QED
      BY <3>1, <3>2
  <2>2. CASE i # n + 1
    <3>1. i \in 1 .. n
      BY <1>2, <2>2
    <3>2. Wrap(h + i - 1) # t /\ Wrap(h + i - 1) \in Slots
      BY <1>1, <1>2, <1>3, <1>4, <3>1 DEF Wrap, Slots
    <3>3. b[i] = a[i]
      BY <3>1
    <3>4. QED
      BY <1>3, <3>1, <3>2, <3>3
  <2>3. QED
    BY <2>1, <2>2
<1>6. QED
  BY <1>2, <1>4, <1>5 DEF Holds

\* The event at the head is the oldest one.
LEMMA HoldsTail ==
  ASSUME NEW q \in [Slots -> Events \cup {None}], NEW h \in Slots, NEW t \in Slots,
         NEW a \in Seq(Events), Holds(q, h, t, a), h # t
  PROVE  Holds(q, Wrap(h + 1), t, Tail(a)) /\ Tail(a) \in Seq(Events)
<1> DEFINE n == Len(a)
           b == Tail(a)
<1>1. QueueLen \in Nat \ {0, 1}
  BY EloopAssumption
<1>2. n \in Nat
  OBVIOUS
<1>3. n < QueueLen /\ t = Wrap(h + n) /\ \A i \in 1 .. n : a[i] = q[Wrap(h + i - 1)]
  BY DEF Holds
<1>4. n > 0
  BY <1>1, <1>2, <1>3 DEF Wrap, Slots
<1>5. a # <<>>
  BY <1>4
<1>6. b \in Seq(Events) /\ Len(b) = n - 1 /\ \A i \in 1 .. n - 1 : b[i] = a[i + 1]
  BY <1>5
<1>7. n - 1 < QueueLen /\ t = Wrap(Wrap(h + 1) + (n - 1))
  BY <1>1, <1>2, <1>3, <1>4 DEF Wrap, Slots
<1>8. ASSUME NEW i \in 1 .. n - 1
      PROVE  b[i] = q[Wrap(Wrap(h + 1) + i - 1)]
  <2>1. i + 1 \in 1 .. n
    BY <1>2
  <2>2. Wrap(h + (i + 1) - 1) = Wrap(Wrap(h + 1) + i - 1)
    BY <1>1, <1>2, <1>3 DEF Wrap, Slots
  <2>3. QED
    BY <1>3, <1>6, <2>1, <2>2
<1>9. QED
  BY <1>6, <1>7, <1>8 DEF Holds

\* The ring is empty at the start.
LEMMA EventsInit == EloopInit => RingInv
<1> SUFFICES ASSUME EloopInit PROVE RingInv
  OBVIOUS
<1>1. 0 \in Slots
  BY EloopAssumption DEF Slots
<1>2. accepted = <<>> /\ accepted \in Seq(Events) /\ Len(accepted) = 0
  BY DEF EloopInit
<1>3. Holds(wpa_queue, 0, 0, accepted)
  BY <1>2, EloopAssumption DEF Holds, Wrap
<1>4. QED
  BY <1>1, <1>2, <1>3, ExactHolds DEF EloopInit, RingInv, EventsExact

\* wpa_send_event, wpa_process_events and every other step keep the ring exact.
LEMMA EventsNext == RingInv /\ [EloopNext]_eloopVars => RingInv'
<1> SUFFICES ASSUME RingInv, [EloopNext]_eloopVars PROVE RingInv'
  OBVIOUS
<1>1. /\ wpa_queue_head \in Slots /\ wpa_queue_tail \in Slots /\ accepted \in Seq(Events)
      /\ wpa_queue \in [Slots -> Events \cup {None}]
  BY DEF RingInv
<1>2. Holds(wpa_queue, wpa_queue_head, wpa_queue_tail, accepted)
  BY <1>1, ExactHolds DEF RingInv, EventsExact
<1>3. SUFFICES /\ wpa_queue_head' \in Slots /\ wpa_queue_tail' \in Slots
               /\ accepted' \in Seq(Events)
               /\ wpa_queue' \in [Slots -> Events \cup {None}]
               /\ Holds(wpa_queue', wpa_queue_head', wpa_queue_tail', accepted')
  BY ExactHolds DEF RingInv, EventsExact
<1>4. ASSUME NEW e \in Events, SendEvent(e)
      PROVE  /\ wpa_queue_head' \in Slots /\ wpa_queue_tail' \in Slots
             /\ accepted' \in Seq(Events)
             /\ wpa_queue' \in [Slots -> Events \cup {None}]
             /\ Holds(wpa_queue', wpa_queue_head', wpa_queue_tail', accepted')
  <2>1. /\ wpa_queue_head' = wpa_queue_head
        /\ wpa_queue_tail' = Wrap(wpa_queue_tail + 1) /\ wpa_queue_tail' \in Slots
        /\ Wrap(wpa_queue_tail + 1) # wpa_queue_head
    BY <1>1, <1>4, NextIndex DEF SendEvent, Full
  <2>2. accepted' = Append(accepted, e) /\ wpa_queue' = [wpa_queue EXCEPT ![wpa_queue_tail] = e]
    BY <1>4 DEF SendEvent
  <2>3. accepted' \in Seq(Events) /\ wpa_queue' \in [Slots -> Events \cup {None}]
    BY <1>1, <2>2
  <2>4. Holds(wpa_queue', wpa_queue_head', wpa_queue_tail', accepted')
    BY <1>1, <1>2, <2>1, <2>2, HoldsAppend, Zenon
  <2>5. QED
    BY <1>1, <2>1, <2>3, <2>4
<1>5. CASE TakeEvent
  <2>1. /\ wpa_queue_head' = Wrap(wpa_queue_head + 1) /\ wpa_queue_head' \in Slots
        /\ wpa_queue_tail' = wpa_queue_tail /\ wpa_queue_head # wpa_queue_tail
        /\ wpa_queue' = wpa_queue /\ accepted' = Tail(accepted)
    BY <1>1, <1>5, NextIndex DEF TakeEvent
  <2>2. QED
    BY <1>1, <1>2, <2>1, HoldsTail
<1>6. CASE UNCHANGED queueVars
  BY <1>1, <1>2, <1>6 DEF queueVars
<1>7. QED
  BY <1>4, <1>5, <1>6
  DEF EloopNext, Loop, Wake, Fire, Ran, NoMoreDue, EventHandled, NoMoreEvents, TakeJob,
      JobDone, Call, PostJob, Withdraw, Tick, eloopVars

\* The ring of driver events holds, for every length of the ring, exactly the
\* events that wpa_send_event accepted and wpa_process_events has not taken,
\* in order.
THEOREM EventsStayExact == EloopSpec => []EventsExact
<1>1. RingInv => EventsExact
  BY DEF RingInv
<1>2. QED
  BY <1>1, EventsInit, EventsNext, PTL DEF EloopSpec

-----------------------------------------------------------------------------
(* Eloop: the list of timeouts *)

Timeouts == [h : Handlers, left : Int]

\* Every entry, not only the next one, is due at the same time or later.
Sorted(l) == \A i, j \in 1 .. Len(l) : i <= j => l[i].left <= l[j].left

\* The list has its type and is sorted.
ListInv == timeout \in Seq(Timeouts) /\ Sorted(timeout)

\* A set of indexes has a least one, which First takes.
LEMMA FirstIsLeast ==
  ASSUME NEW I \in SUBSET Nat, I # {}
  PROVE  First(I) \in I /\ \A i \in I : First(I) <= i
<1> DEFINE R == OpToRel(<, Nat)
<1>1. \A x, y \in Nat : x < y => <<x, y>> \in R
  BY DEF OpToRel
<1>2. IsWellFoundedOn(R, Nat)
  BY NatLessThanWellFounded, Zenon
<1> HIDE DEF R
<1>3. PICK x \in I : \A y \in I : ~ (<<y, x>> \in R)
  BY <1>2, WFMin, Zenon
<1>4. ASSUME NEW y \in I PROVE x <= y
  <2>1. ~ (y < x)
    BY <1>1, <1>3, Zenon
  <2>2. QED
    BY <2>1
<1>5. QED
  BY <1>4, Zenon DEF First

\* The time left in the entries of a list is a number.
LEMMA EntryType ==
  ASSUME NEW l \in Seq(Timeouts)
  PROVE  Len(l) \in Nat /\ \A i \in 1 .. Len(l) : l[i] \in Timeouts /\ l[i].left \in Int
<1>1. Len(l) \in Nat /\ \A i \in 1 .. Len(l) : l[i] \in Timeouts
  OBVIOUS
<1>2. \A x \in Timeouts : x.left \in Int
  BY DEF Timeouts
<1>3. QED
  BY <1>1, <1>2

\* eloop_register_timeout keeps the list sorted.
LEMMA InsertSorted ==
  ASSUME NEW l \in Seq(Timeouts), Sorted(l), NEW h \in Handlers, NEW d \in Int
  PROVE  Insert(l, h, d) \in Seq(Timeouts) /\ Sorted(Insert(l, h, d))
<1> DEFINE I == {i \in 1 .. Len(l) : d < l[i].left}
           k == IF I = {} THEN Len(l) + 1 ELSE First(I)
           e == Entry(h, d)
           r == Insert(l, h, d)
<1>1. e \in Timeouts /\ e.left = d
  BY DEF Entry, Timeouts
<1>2. Len(l) \in Nat /\ \A i \in 1 .. Len(l) : l[i] \in Timeouts /\ l[i].left \in Int
  BY EntryType
<1>3. \A i, j \in 1 .. Len(l) : i <= j => l[i].left <= l[j].left
  BY SMTT(30) DEF Sorted
<1>4. r = [i \in 1 .. Len(l) + 1 |-> IF i < k THEN l[i] ELSE IF i = k THEN e ELSE l[i - 1]]
  BY SMTT(30) DEF Insert
<1>5. /\ k \in 1 .. Len(l) + 1
      /\ \A i \in 1 .. Len(l) : i < k => ~ (d < l[i].left)
      /\ k <= Len(l) => d < l[k].left
  <2>1. CASE I = {}
    <3>1. k = Len(l) + 1 /\ \A i \in 1 .. Len(l) : ~ (d < l[i].left)
      BY <2>1
    <3>2. QED
      BY <1>2, <3>1
  <2>2. CASE I # {}
    <3>1. I \in SUBSET Nat
      BY <1>2
    <3>2. k \in I /\ \A i \in I : k <= i
      BY <2>2, <3>1, FirstIsLeast, Zenon
    <3> HIDE DEF k
    <3>3. k \in 1 .. Len(l) /\ d < l[k].left
      BY <3>2
    <3>4. ASSUME NEW i \in 1 .. Len(l), i < k PROVE ~ (d < l[i].left)
      BY <1>2, <3>2, <3>3, <3>4
    <3>5. QED
      BY <1>2, <3>3, <3>4
  <2>3. QED
    BY <2>1, <2>2, Zenon
<1> HIDE DEF k, e, r
<1>6. ASSUME NEW i \in 1 .. Len(l), i < k PROVE l[i].left <= d
  BY <1>2, <1>5, <1>6
<1>7. ASSUME NEW i \in 1 .. Len(l), i >= k PROVE d <= l[i].left
  <2>1. k \in 1 .. Len(l) /\ d < l[k].left
    BY <1>2, <1>5, <1>7
  <2>2. l[k].left <= l[i].left /\ l[k].left \in Int /\ l[i].left \in Int
    BY <1>2, <1>3, <1>7, <2>1, SMTT(30)
  <2>3. QED
    BY <2>1, <2>2
<1>8. ASSUME NEW i \in 1 .. Len(l) + 1
      PROVE  /\ i < k => i \in 1 .. Len(l) /\ r[i] = l[i]
             /\ i = k => r[i] = e
             /\ i > k => i - 1 \in 1 .. Len(l) /\ i - 1 >= k /\ r[i] = l[i - 1]
  BY <1>2, <1>4, <1>5
<1>9. r \in Seq(Timeouts) /\ Len(r) = Len(l) + 1
  <2>1. \A i \in 1 .. Len(l) + 1 : r[i] \in Timeouts
    <3> SUFFICES ASSUME NEW i \in 1 .. Len(l) + 1 PROVE r[i] \in Timeouts
      OBVIOUS
    <3>1. i < k \/ i = k \/ i > k
      BY <1>2, <1>5
    <3>2. QED
      BY <1>1, <1>2, <1>8, <3>1
  <2>2. r \in [1 .. Len(l) + 1 -> Timeouts]
    BY <1>4, <2>1
  <2>3. QED
    BY <1>2, <2>2
<1>10. ASSUME NEW i \in 1 .. Len(l) + 1, NEW j \in 1 .. Len(l) + 1, i <= j
       PROVE  r[i].left <= r[j].left
  <2>1. CASE j < k
    <3>1. i \in 1 .. Len(l) /\ j \in 1 .. Len(l) /\ r[i] = l[i] /\ r[j] = l[j]
      BY <1>5, <1>8, <1>10, <2>1
    <3>2. QED
      BY <1>3, <1>10, <3>1, SMTT(30)
  <2>2. CASE i < k /\ j = k
    BY <1>1, <1>6, <1>8, <2>2
  <2>3. CASE i < k /\ j > k
    <3>1. /\ i \in 1 .. Len(l) /\ j - 1 \in 1 .. Len(l) /\ i <= j - 1
          /\ r[i] = l[i] /\ r[j] = l[j - 1]
      BY <1>5, <1>8, <2>3, SMTT(30)
    <3>2. QED
      BY <1>3, <3>1
  <2>4. CASE i = k /\ j = k
    BY <1>1, <1>8, <2>4
  <2>5. CASE i = k /\ j > k
    BY <1>1, <1>7, <1>8, <2>5
  <2>6. CASE i > k
    <3>1. /\ i - 1 \in 1 .. Len(l) /\ j - 1 \in 1 .. Len(l) /\ i - 1 <= j - 1
          /\ r[i] = l[i - 1] /\ r[j] = l[j - 1]
      BY <1>5, <1>8, <1>10, <2>6
    <3>2. QED
      BY <1>3, <3>1
  <2>7. QED
    BY <1>5, <1>10, <2>1, <2>2, <2>3, <2>4, <2>5, <2>6
<1>11. QED
  BY <1>9, <1>10 DEF Sorted, r

\* How many members of a set of numbers are smaller than i.
Rank(K, i) == Cardinality({j \in K : j < i})

\* The rank counts, and grows with i.
LEMMA RankGrows ==
  ASSUME NEW K \in SUBSET Nat, IsFiniteSet(K), NEW a \in Nat, NEW b \in Nat
  PROVE  /\ Rank(K, a) \in Nat
         /\ a <= b => Rank(K, a) <= Rank(K, b)
         /\ a \in K /\ a < b => Rank(K, a) < Rank(K, b)
         /\ a \in K => Rank(K, a) < Cardinality(K)
<1> DEFINE A == {j \in K : j < a}
           B == {j \in K : j < b}
<1>1. A \in SUBSET K /\ B \in SUBSET K
  OBVIOUS
<1>2. /\ IsFiniteSet(A) /\ IsFiniteSet(B)
      /\ Cardinality(A) \in Nat /\ Cardinality(B) \in Nat /\ Cardinality(K) \in Nat
  BY <1>1, FS_Subset, FS_CardinalityType
<1>13. \A j \in K : j < a /\ a <= b => j < b
  <2>1. \A j \in Nat : j < a /\ a <= b => j < b
    OBVIOUS
  <2>2. QED
    BY <2>1
<1>3. a <= b => A \in SUBSET B
  BY <1>13, Zenon
<1>4. a \in K /\ a < b => A \cup {a} \in SUBSET B
  <2>1. a < b => a <= b
    OBVIOUS
  <2>2. QED
    BY <1>3, <2>1, Zenon
<1>5. a \in K => A \cup {a} \in SUBSET K
  OBVIOUS
<1>6. a \notin A
  OBVIOUS
<1> HIDE DEF A, B
<1>7. Cardinality(A \cup {a}) = Cardinality(A) + 1
  BY <1>2, <1>6, FS_AddElement, Zenon
<1>8. a <= b => Cardinality(A) <= Cardinality(B)
  BY <1>2, <1>3, FS_Subset
<1>9. a \in K /\ a < b => Cardinality(A \cup {a}) <= Cardinality(B)
  BY <1>2, <1>4, FS_Subset
<1>10. a \in K => Cardinality(A \cup {a}) <= Cardinality(K)
  BY <1>5, FS_Subset
<1>11. Rank(K, a) = Cardinality(A) /\ Rank(K, b) = Cardinality(B)
  BY DEF Rank, A, B
<1>12. QED
  BY <1>2, <1>7, <1>8, <1>9, <1>10, <1>11

\* Every rank below the size of a set is the rank of one of its members.
LEMMA RankReached ==
  ASSUME NEW K \in SUBSET Nat, IsFiniteSet(K), NEW n \in 1 .. Cardinality(K)
  PROVE  \E i \in K : Rank(K, i) = n - 1
<1> DEFINE m == Cardinality(K)
           T == 0 .. m - 1
           f == [i \in K |-> Rank(K, i)]
<1>1. m \in Nat /\ m > 0
  BY FS_CardinalityType
<1>2. IsFiniteSet(T) /\ Cardinality(T) = m
  <2> HIDE DEF m
  <2>1. 0 \in Int /\ m - 1 \in Int /\ ~ (0 > m - 1) /\ m - 1 - 0 + 1 = m
    BY <1>1
  <2>2. QED
    BY <2>1, FS_Interval
<1>3. \A i \in K : i \in Nat /\ Rank(K, i) \in Nat /\ Rank(K, i) < m
  BY RankGrows
<1>4. \A i, j \in K : i < j => Rank(K, i) < Rank(K, j)
  BY RankGrows
<1>5. f \in [K -> T]
  BY <1>1, <1>3
<1>6. ASSUME NEW i \in K, NEW j \in K, f[i] = f[j] PROVE i = j
  BY <1>3, <1>4, <1>6
<1> HIDE DEF f, T
<1>7. f \in Injection(K, T)
  BY <1>5, <1>6 DEF Injection, IsInjective
<1>8. f \in Surjection(K, T)
  BY <1>2, <1>7, FS_Injection
<1>9. n - 1 \in T
  BY <1>1 DEF T
<1>10. \E i \in K : f[i] = n - 1
  BY <1>8, <1>9, SMTT(30) DEF Surjection
<1>11. QED
  BY <1>10 DEF f

\* eloop_cancel_timeout keeps the list sorted: what is left keeps its order.
LEMMA CancelSorted ==
  ASSUME NEW l \in Seq(Timeouts), Sorted(l), NEW H
  PROVE  Cancel(l, H) \in Seq(Timeouts) /\ Sorted(Cancel(l, H))
<1> DEFINE K == {i \in 1 .. Len(l) : l[i].h \notin H}
           m == Cardinality(K)
           Place(n) == CHOOSE i \in K : Rank(K, i) = n - 1
           r == Cancel(l, H)
<1>1. Len(l) \in Nat /\ \A i \in 1 .. Len(l) : l[i] \in Timeouts
  BY EntryType
<1>2. \A i, j \in 1 .. Len(l) : i <= j => l[i].left <= l[j].left
  BY DEF Sorted
<1>3. K \in SUBSET Nat /\ K \in SUBSET (1 .. Len(l))
  BY <1>1
<1>4. IsFiniteSet(K) /\ m \in Nat
  <2>1. IsFiniteSet(1 .. Len(l))
    BY <1>1, FS_Interval
  <2>2. QED
    BY <1>3, <2>1, FS_Subset, FS_CardinalityType
<1>5. r = [n \in 1 .. m |-> l[Place(n)]]
  BY DEF Cancel, Rank
<1> HIDE DEF K, m, r
<1>6. ASSUME NEW n \in 1 .. m PROVE Place(n) \in K /\ Rank(K, Place(n)) = n - 1
  <2>1. \E i \in K : Rank(K, i) = n - 1
    BY <1>3, <1>4, RankReached DEF m
  <2>2. QED
    BY <2>1
<1> HIDE DEF Place
<1>7. ASSUME NEW a \in 1 .. m, NEW b \in 1 .. m, a <= b PROVE Place(a) <= Place(b)
  <2>1. Place(a) \in Nat /\ Place(b) \in Nat /\ Place(b) \in K
    BY <1>3, <1>6, Zenon
  <2>2. Rank(K, Place(a)) = a - 1 /\ Rank(K, Place(b)) = b - 1
    BY <1>6
  <2>3. Place(b) < Place(a) => Rank(K, Place(b)) < Rank(K, Place(a))
    BY <1>3, <1>4, <2>1, RankGrows
  <2>4. QED
    BY <1>4, <1>7, <2>1, <2>2, <2>3
<1>8. \A n \in 1 .. m : Place(n) \in 1 .. Len(l)
  BY <1>3, <1>6, Zenon
<1>9. r \in [1 .. m -> Timeouts]
  BY <1>1, <1>5, <1>8
<1>10. r \in Seq(Timeouts) /\ Len(r) = m
  BY <1>4, <1>9, SMTT(30)
<1>11. ASSUME NEW i \in 1 .. m, NEW j \in 1 .. m, i <= j PROVE r[i].left <= r[j].left
  <2>1. r[i] = l[Place(i)] /\ r[j] = l[Place(j)]
    BY <1>5
  <2>2. Place(i) \in 1 .. Len(l) /\ Place(j) \in 1 .. Len(l) /\ Place(i) <= Place(j)
    BY <1>7, <1>8, <1>11
  <2>3. QED
    BY <1>2, <2>1, <2>2
<1>12. QED
  BY <1>10, <1>11 DEF Sorted, r

\* eloop_cancel_timeout_one keeps the list sorted.
LEMMA CancelOneSorted ==
  ASSUME NEW l \in Seq(Timeouts), Sorted(l), NEW h
  PROVE  CancelOne(l, h) \in Seq(Timeouts) /\ Sorted(CancelOne(l, h))
<1> DEFINE k == First(Of(l, h))
           r == CancelOne(l, h)
<1>1. Len(l) \in Nat /\ \A i \in 1 .. Len(l) : l[i] \in Timeouts
  BY EntryType
<1>2. \A i, j \in 1 .. Len(l) : i <= j => l[i].left <= l[j].left
  BY DEF Sorted
<1>3. CASE Of(l, h) = {}
  BY <1>3, SMTT(30) DEF CancelOne
<1>4. CASE Of(l, h) # {}
  <2>1. k \in 1 .. Len(l)
    <3>1. Of(l, h) \in SUBSET Nat /\ Of(l, h) \in SUBSET (1 .. Len(l))
      BY <1>1 DEF Of
    <3>2. QED
      BY <1>4, <3>1, FirstIsLeast
  <2>2. r = [i \in 1 .. Len(l) - 1 |-> IF i < k THEN l[i] ELSE l[i + 1]]
    BY <1>4 DEF CancelOne
  <2> HIDE DEF k, r
  <2>3. r \in [1 .. Len(l) - 1 -> Timeouts] /\ Len(l) - 1 \in Nat
    BY <1>1, <2>1, <2>2
  <2>4. r \in Seq(Timeouts) /\ Len(r) = Len(l) - 1
    BY <2>3
  <2>5. ASSUME NEW i \in 1 .. Len(l) - 1, NEW j \in 1 .. Len(l) - 1, i <= j
        PROVE  r[i].left <= r[j].left
    <3> DEFINE p == IF i < k THEN i ELSE i + 1
               q == IF j < k THEN j ELSE j + 1
    <3>1. p \in 1 .. Len(l) /\ q \in 1 .. Len(l) /\ p <= q
      BY <1>1, <2>1, <2>5
    <3>2. r[i] = l[p] /\ r[j] = l[q]
      BY <2>2
    <3> HIDE DEF p, q
    <3>3. QED
      BY <1>2, <3>1, <3>2
  <2>6. QED
    BY <2>4, <2>5 DEF Sorted, r
<1>5. QED
  BY <1>3, <1>4

\* eloop_register_timeout and eloop_reschedule_timeout as the callers see them.
LEMMA RegisterSorted ==
  ASSUME NEW l \in Seq(Timeouts), Sorted(l), NEW h \in Handlers, NEW d \in Int
  PROVE  /\ Register(l, h, d) \in Seq(Timeouts) /\ Sorted(Register(l, h, d))
         /\ \A s \in BOOLEAN : /\ Reschedule(l, h, d, s) \in Seq(Timeouts)
                               /\ Sorted(Reschedule(l, h, d, s))
<1>1. \A x \in Seq(Timeouts) :
        Sorted(x) => Register(x, h, d) \in Seq(Timeouts) /\ Sorted(Register(x, h, d))
  BY InsertSorted, Zenon DEF Register
<1>2. Cancel(l, {h}) \in Seq(Timeouts) /\ Sorted(Cancel(l, {h}))
  BY CancelSorted, SMTT(30)
<1>3. ASSUME NEW s \in BOOLEAN
      PROVE  Reschedule(l, h, d, s) = l \/ Reschedule(l, h, d, s) = Register(Cancel(l, {h}), h, d)
  BY SMTT(30) DEF Reschedule
<1>4. QED
  BY <1>1, <1>2, <1>3, Zenon

\* Time passes for all entries alike, so it does not disturb the order.
LEMMA TickSorted == ListInv /\ Tick => ListInv'
<1> SUFFICES ASSUME ListInv, Tick PROVE ListInv'
  OBVIOUS
<1> DEFINE l == timeout
           r == timeout'
           Less(x) == IF x > -1 THEN x - 1 ELSE x
<1>1. /\ l \in Seq(Timeouts) /\ Len(l) \in Nat
      /\ \A i \in 1 .. Len(l) : l[i] \in Timeouts /\ l[i].left \in Int
  BY EntryType DEF ListInv
<1>2. \A i, j \in 1 .. Len(l) : i <= j => l[i].left <= l[j].left
  BY DEF ListInv, Sorted
<1>3. r = [i \in 1 .. Len(l) |-> [l[i] EXCEPT !.left = Less(l[i].left)]]
  BY <1>1 DEF Tick
<1>4. \A x \in Timeouts : LET y == [x EXCEPT !.left = Less(x.left)]
                          IN y \in Timeouts /\ y.left = Less(x.left)
  BY DEF Timeouts
<1>5. \A i \in 1 .. Len(l) : r[i] \in Timeouts /\ r[i].left = Less(l[i].left)
  BY <1>1, <1>3, <1>4, Zenon
<1>6. r \in [1 .. Len(l) -> Timeouts]
  BY <1>3, <1>5
<1>7. r \in Seq(Timeouts) /\ Len(r) = Len(l)
  BY <1>1, <1>6
<1>8. \A x, y \in Int : x <= y => Less(x) <= Less(y)
  BY SMTT(30)
<1> HIDE DEF Less
<1>9. \A i, j \in 1 .. Len(l) : i <= j => r[i].left <= r[j].left
  BY <1>1, <1>2, <1>5, <1>8
<1>10. QED
  BY <1>7, <1>9 DEF ListInv, Sorted

\* Unlinking the first entry leaves a sorted list.
LEMMA FireSorted == ListInv /\ Fire => ListInv'
<1> SUFFICES ASSUME ListInv, Fire PROVE ListInv'
  OBVIOUS
<1>1. timeout \in Seq(Timeouts) /\ timeout # <<>> /\ timeout' = Tail(timeout)
  BY DEF ListInv, Fire, Due
<1>2. /\ timeout' \in Seq(Timeouts) /\ Len(timeout') = Len(timeout) - 1 /\ Len(timeout) \in Nat
      /\ \A i \in 1 .. Len(timeout) - 1 : timeout'[i] = timeout[i + 1]
  BY <1>1
<1>3. \A i, j \in 1 .. Len(timeout) : i <= j => timeout[i].left <= timeout[j].left
  BY DEF ListInv, Sorted
<1>4. ASSUME NEW i \in 1 .. Len(timeout) - 1, NEW j \in 1 .. Len(timeout) - 1, i <= j
      PROVE  timeout'[i].left <= timeout'[j].left
  <2>1. i + 1 \in 1 .. Len(timeout) /\ j + 1 \in 1 .. Len(timeout) /\ i + 1 <= j + 1
    BY <1>2, <1>4
  <2>2. QED
    BY <1>2, <1>3, <2>1
<1>5. QED
  BY <1>2, <1>4 DEF ListInv, Sorted

\* At most one timeout is registered when the loop starts.
LEMMA ListInit == EloopInit => ListInv
<1> SUFFICES ASSUME EloopInit PROVE ListInv
  OBVIOUS
<1>1. CASE timeout = <<>>
  BY <1>1 DEF ListInv, Sorted
<1>2. ASSUME NEW h \in Handlers, NEW d \in Delays, timeout = <<Entry(h, d)>>
      PROVE  ListInv
  <2>1. Entry(h, d) \in Timeouts /\ Entry(h, d).left \in Int
    BY EloopAssumption DEF Entry, Timeouts
  <2>2. timeout \in Seq(Timeouts) /\ Len(timeout) = 1 /\ timeout[1] = Entry(h, d)
    BY <1>2, <2>1
  <2>3. QED
    BY <2>1, <2>2 DEF ListInv, Sorted
<1>3. QED
  BY <1>1, <1>2 DEF EloopInit

\* Whatever a handler, an event handler or a job does with the list keeps it
\* sorted.
LEMMA CallSorted == ListInv /\ Call => ListInv'
<1> SUFFICES ASSUME ListInv, Call PROVE ListInv'
  OBVIOUS
<1>1. timeout \in Seq(Timeouts) /\ Sorted(timeout)
  BY DEF ListInv
<1>2. Delays \subseteq Int
  BY EloopAssumption
<1>3. ASSUME NEW h \in Handlers, NEW d \in Delays, timeout' = Register(timeout, h, d)
      PROVE  ListInv'
  BY <1>1, <1>2, <1>3, RegisterSorted DEF ListInv
<1>4. ASSUME NEW K, timeout' = Cancel(timeout, K)
      PROVE  ListInv'
  BY <1>1, <1>4, CancelSorted DEF ListInv
<1>5. ASSUME NEW h, timeout' = CancelOne(timeout, h)
      PROVE  ListInv'
  BY <1>1, <1>5, CancelOneSorted DEF ListInv
<1>6. ASSUME NEW h \in Handlers, NEW d \in Delays, NEW s \in BOOLEAN,
             timeout' = Reschedule(timeout, h, d, s)
      PROVE  ListInv'
  BY <1>1, <1>2, <1>6, RegisterSorted, SMTT(30) DEF ListInv
<1>7. QED
  BY <1>3, <1>4, <1>5, <1>6 DEF Call

\* Every step of the supplicant's task, of the other tasks and of the clock
\* keeps the list sorted.
LEMMA ListNext == ListInv /\ [EloopNext]_eloopVars => ListInv'
<1> SUFFICES ASSUME ListInv, [EloopNext]_eloopVars PROVE ListInv'
  OBVIOUS
<1>1. CASE UNCHANGED timeout
  BY <1>1 DEF ListInv
<1>2. QED
  BY <1>1, FireSorted, CallSorted, TickSorted
  DEF EloopNext, Loop, Wake, Ran, NoMoreDue, TakeEvent, EventHandled, NoMoreEvents, TakeJob,
      JobDone, SendEvent, PostJob, Withdraw, eloopVars

\* The list of timeouts is ordered by deadline, for every set of handlers and
\* delays and however handlers register, cancel and reschedule: the first
\* entry, the only one eloop_run looks at, is the next one due.
THEOREM ListStaysSorted == EloopSpec => []TimeoutsSorted
<1>1. ListInv => TimeoutsSorted
  <2> SUFFICES ASSUME ListInv, NEW i \in 1 .. Len(timeout) - 1
               PROVE  timeout[i].left <= timeout[i + 1].left
    BY DEF TimeoutsSorted
  <2>1. Len(timeout) \in Nat
    BY DEF ListInv
  <2>2. i \in 1 .. Len(timeout) /\ i + 1 \in 1 .. Len(timeout) /\ i <= i + 1
    BY <2>1
  <2>3. QED
    BY <2>2 DEF ListInv, Sorted
<1>2. QED
  BY <1>1, ListInit, ListNext, PTL DEF EloopSpec
=============================================================================
