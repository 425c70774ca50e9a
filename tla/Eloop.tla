-------------------------------- MODULE Eloop --------------------------------
(***************************************************************************)
(* The supplicant's task: eloop_run of port/wpa/eloop_port.c, its list of  *)
(* timeouts, and the two queues it serves between timeouts, the ring of    *)
(* driver events and the slot for jobs of port/wpa/supp_main_freertos.c.   *)
(*                                                                         *)
(* The list belongs to this task: timeout handlers, event handlers and     *)
(* jobs all run on it and may call the eloop functions in any way.  Other  *)
(* tasks send events and post jobs.  Time is relative: an entry counts     *)
(* down to its deadline, and -1 stands for every overdue entry, which is   *)
(* exact because a new entry is never due before now.  WpaJobs has the     *)
(* life of a job; here the slot is empty or not.                           *)
(***************************************************************************)
EXTENDS Integers, Sequences, FiniteSets

CONSTANTS
  Handlers,      \* a handler with its two contexts
  Steady,        \* handlers whose timeouts nobody cancels or reschedules
  Delays,        \* delays that are asked for
  MaxTimeouts,   \* bound: entries the heap has room for
  MaxCalls,      \* bound: eloop calls made by one run of a handler
  Events,        \* driver events
  QueueLen,      \* WPA_QUEUE_LEN: slots of the ring, one of them unused
  Budget         \* timeouts served in one round (16)

ASSUME EloopAssumption ==
  /\ Steady \subseteq Handlers /\ Delays \subseteq Nat
  /\ QueueLen \in Nat \ {0, 1} /\ Budget \in Nat \ {0}

VARIABLES
  timeout,       \* eloop.timeout: [h, left], the next one first
  stage,         \* "sleep", "due", "run", "events", "event", "jobs", "job"
  running,       \* the handler that came due and is running
  rounds,        \* iterations left of the loop that is going on
  calls,         \* calls made by the handler, event handler or job
  wpa_queue, wpa_queue_head, wpa_queue_tail,
  job,           \* wpa_job_cur: "none" or "posted"
  accepted       \* history: the events accepted and not yet taken

queueVars == <<wpa_queue, wpa_queue_head, wpa_queue_tail, accepted>>
eloopVars == <<timeout, stage, running, rounds, calls, queueVars, job>>

None == "none"
Slots == 0 .. QueueLen - 1
Entry(h, d) == [h |-> h, left |-> d]
First(I) == CHOOSE k \in I : \A i \in I : k <= i
-----------------------------------------------------------------------------
(* The list of timeouts *)

\* Mutant of Insert: the newest entry comes first.
InsertFirst(l, h, d) == <<Entry(h, d)>> \o l

\* eloop_register_timeout: in front of the first entry that is due later, so
\* behind every entry that is due at the same time.
Insert(l, h, d) ==
  LET later == {i \in 1 .. Len(l) : d < l[i].left}
      k == IF later = {} THEN Len(l) + 1 ELSE First(later)
  IN [i \in 1 .. Len(l) + 1 |->
        IF i < k THEN l[i] ELSE IF i = k THEN Entry(h, d) ELSE l[i - 1]]

\* It fails when there is no memory.
Register(l, h, d) == IF Len(l) < MaxTimeouts THEN Insert(l, h, d) ELSE l

\* eloop_cancel_timeout: every entry that matches; a wildcard context matches
\* several handlers of K.
Cancel(l, K) ==
  LET kept == {i \in 1 .. Len(l) : l[i].h \notin K}
  IN [n \in 1 .. Cardinality(kept) |->
        l[CHOOSE i \in kept : Cardinality({j \in kept : j < i}) = n - 1]]

\* The entries of handler h.
Of(l, h) == {i \in 1 .. Len(l) : l[i].h = h}

\* eloop_cancel_timeout_one: the first entry that matches.
CancelOne(l, h) ==
  IF Of(l, h) = {} THEN l
  ELSE [i \in 1 .. Len(l) - 1 |-> IF i < First(Of(l, h)) THEN l[i] ELSE l[i + 1]]

\* eloop_reschedule_timeout: the first match decides whether all are replaced
\* by one with delay d.
Reschedule(l, h, d, only_shorten) ==
  LET left == l[First(Of(l, h))].left
      res == IF only_shorten THEN d < left ELSE left < d
  IN IF Of(l, h) # {} /\ res THEN Register(Cancel(l, {h}), h, d) ELSE l

\* A handler, an event handler or a job uses the list.
Call ==
  /\ stage \in {"run", "event", "job"} /\ calls < MaxCalls
  /\ calls' = calls + 1
  /\ \/ \E h \in Handlers, d \in Delays : timeout' = Register(timeout, h, d)
     \/ \E K \in SUBSET (Handlers \ Steady) : timeout' = Cancel(timeout, K)
     \/ \E h \in Handlers \ Steady : timeout' = CancelOne(timeout, h)
     \/ \E h \in Handlers \ Steady, d \in Delays, s \in BOOLEAN :
          timeout' = Reschedule(timeout, h, d, s)
  /\ UNCHANGED <<stage, running, rounds, queueVars, job>>
-----------------------------------------------------------------------------
(* eloop_run *)

\* ksleep for at most 20 ms returns.
Wake ==
  /\ stage = "sleep"
  /\ stage' = "due" /\ rounds' = Budget
  /\ UNCHANGED <<timeout, running, calls, queueVars, job>>

Due == timeout # <<>> /\ timeout[1].left <= 0

\* Mutant of Fire: as long as something is due.
FireAll ==
  /\ stage = "due" /\ Due
  /\ running' = timeout[1].h
  /\ timeout' = Tail(timeout)
  /\ stage' = "run"
  /\ UNCHANGED <<rounds, calls, queueVars, job>>

\* The first entry is unlinked before its handler runs.
Fire ==
  /\ stage = "due" /\ rounds > 0 /\ Due
  /\ running' = timeout[1].h
  /\ timeout' = Tail(timeout)
  /\ stage' = "run" /\ rounds' = rounds - 1
  /\ UNCHANGED <<calls, queueVars, job>>

Ran ==
  /\ stage = "run"
  /\ stage' = "due" /\ running' = None /\ calls' = 0
  /\ UNCHANGED <<timeout, rounds, queueVars, job>>

NoMoreDue ==
  /\ stage = "due" /\ (rounds = 0 \/ ~Due)
  /\ stage' = "events" /\ rounds' = QueueLen
  /\ UNCHANGED <<timeout, running, calls, queueVars, job>>

\* wpa_process_events: one event.
TakeEvent ==
  /\ stage = "events" /\ rounds > 0 /\ wpa_queue_head # wpa_queue_tail
  /\ wpa_queue_head' = (wpa_queue_head + 1) % QueueLen
  /\ accepted' = Tail(accepted)
  /\ stage' = "event" /\ rounds' = rounds - 1
  /\ UNCHANGED <<timeout, running, calls, wpa_queue, wpa_queue_tail, job>>

EventHandled ==
  /\ stage = "event"
  /\ stage' = "events" /\ calls' = 0
  /\ UNCHANGED <<timeout, running, rounds, queueVars, job>>

NoMoreEvents ==
  /\ stage = "events" /\ (rounds = 0 \/ wpa_queue_head = wpa_queue_tail)
  /\ stage' = "jobs" /\ rounds' = 0
  /\ UNCHANGED <<timeout, running, calls, queueVars, job>>

\* wpa_process_jobs, and the next round.
TakeJob ==
  /\ stage = "jobs"
  /\ stage' = IF job = "posted" THEN "job" ELSE "sleep"
  /\ UNCHANGED <<timeout, running, rounds, calls, queueVars, job>>

JobDone ==
  /\ stage = "job"
  /\ stage' = "sleep" /\ job' = "none" /\ calls' = 0
  /\ UNCHANGED <<timeout, running, rounds, queueVars>>
-----------------------------------------------------------------------------
(* Other tasks, and time *)

\* Mutant of Full: the slot that tells a full ring from an empty one is used.
FullLate == Len(accepted) = QueueLen

Full == (wpa_queue_tail + 1) % QueueLen = wpa_queue_head

\* wpa_send_event; with a full ring the event is dropped.
SendEvent(e) ==
  /\ ~Full
  /\ wpa_queue' = [wpa_queue EXCEPT ![wpa_queue_tail] = e]
  /\ wpa_queue_tail' = (wpa_queue_tail + 1) % QueueLen
  /\ accepted' = Append(accepted, e)
  /\ UNCHANGED <<timeout, stage, running, rounds, calls, wpa_queue_head, job>>

\* wpa_job_run; it gives up waiting only for a job that has not started.
PostJob ==
  /\ job = "none"
  /\ job' = "posted"
  /\ UNCHANGED <<timeout, stage, running, rounds, calls, queueVars>>

Withdraw ==
  /\ job = "posted" /\ stage # "job"
  /\ job' = "none"
  /\ UNCHANGED <<timeout, stage, running, rounds, calls, queueVars>>

Tick ==
  /\ \E i \in DOMAIN timeout : timeout[i].left > -1
  /\ timeout' = [i \in DOMAIN timeout |->
       [timeout[i] EXCEPT !.left = IF @ > -1 THEN @ - 1 ELSE @]]
  /\ UNCHANGED <<stage, running, rounds, calls, queueVars, job>>
-----------------------------------------------------------------------------
EloopInit ==
  /\ timeout \in {<<>>} \cup {<<Entry(h, d)>> : h \in Handlers, d \in Delays}
  /\ stage = "sleep" /\ running = None /\ rounds = 0 /\ calls = 0
  /\ wpa_queue = [i \in Slots |-> None] /\ wpa_queue_head = 0 /\ wpa_queue_tail = 0
  /\ job = "none" /\ accepted = <<>>

Loop == Wake \/ Fire \/ Ran \/ NoMoreDue \/ TakeEvent \/ EventHandled \/ NoMoreEvents
        \/ TakeJob \/ JobDone

EloopNext == Loop \/ Call \/ (\E e \in Events : SendEvent(e)) \/ PostJob \/ Withdraw \/ Tick

EloopSpec == EloopInit /\ [][EloopNext]_eloopVars

\* The supplicant's task is scheduled, handlers return, time passes.
EloopFairSpec == EloopSpec /\ WF_eloopVars(Loop) /\ WF_eloopVars(Tick)
-----------------------------------------------------------------------------
\* The list stays ordered by deadline under every sequence of registrations,
\* cancellations and reschedulings, those made by a running handler included:
\* eloop_run looks at the first entry only.
TimeoutsSorted ==
  \A i \in 1 .. Len(timeout) - 1 : timeout[i].left <= timeout[i + 1].left

\* Between head and tail the ring holds the events that were accepted and not
\* yet taken, in order, and the ring never claims to be empty when it is not.
EventsExact ==
  /\ (wpa_queue_tail + QueueLen - wpa_queue_head) % QueueLen = Len(accepted)
  /\ \A i \in DOMAIN accepted : accepted[i] = wpa_queue[(wpa_queue_head + i - 1) % QueueLen]

\* A timeout that nobody cancels runs, also when other handlers register
\* themselves again without delay each time they run.
TimeoutFires ==
  \A h \in Steady : (\E i \in DOMAIN timeout : timeout[i].h = h) ~> (running = h)

\* A posted job is run or withdrawn although timeouts and events may keep
\* coming: both loops before wpa_process_jobs are bounded.
JobsServed == (job = "posted") ~> (job = "none" \/ stage = "job")
=============================================================================
