------------------------------ MODULE OsalSleep ------------------------------
(***************************************************************************)
(* The port serializer and tsleep/wakeup, as both OS ports implement them: *)
(* port/osal/freertos/osal_freertos.c and port/osal/embox/osal_embox.c.    *)
(*                                                                         *)
(* The serializer is the reentrant lock that stands for splnet().  tsleep  *)
(* links a slot for its ident, takes a remembered wakeup if there is one,  *)
(* drops the serializer, waits until the slot is fired or the deadline is  *)
(* reached, and takes the serializer back at the depth it had.  wakeup     *)
(* fires the slots of its ident; when it finds none it remembers the ident *)
(* in a table of PendingMax entries.                                       *)
(*                                                                         *)
(* wlan_tsleep_mtx sections are single steps.  Time is relative: left[t]   *)
(* is deadline - now of a sleeping thread, which every Tick decrements and *)
(* which may become negative; nap[t] is what remains of the wait on the    *)
(* semaphore or condition.                                                 *)
(***************************************************************************)
EXTENDS Integers, Sequences

CONSTANTS Tasks,       \* threads that enter the driver
          Sleepers,    \* the ones whose driver code calls tsleep
          Idents,      \* wait channels
          NoThread,    \* the NULL owner
          PendingMax,  \* WLAN_TSLEEP_PENDING_MAX
          Timo,        \* the timeout of a timed tsleep, in ticks
          Quantum,     \* the 20 ms poll quantum, in ticks
          MaxDepth,    \* bound: nesting of the serializer
          MaxSem,      \* bound: tokens of wlan_tsleep_sem
          MaxLate,     \* bound: ticks a thread is observed past its deadline
          TickMod,     \* 2^64: TickType_t is unsigned
          MsPerSec     \* pdTICKS_TO_MS multiplies by it, then divides by HZ

ASSUME TasksAssumption == Sleepers \subseteq Tasks /\ NoThread \notin Tasks
ASSUME SizesAssumption ==
  /\ PendingMax \in Nat /\ Quantum \in Nat /\ MaxDepth \in Nat /\ MaxSem \in Nat
  /\ Timo \in Nat /\ TickMod \in Nat \ {0} /\ MsPerSec \in Nat \ {0}

VARIABLES
  port,                   \* the OS the image is built for: never changes
  ser_owner, ser_depth,   \* wlan_ser_owner, wlan_ser_depth
  nest,                   \* history: lock calls minus unlock calls per thread
  where,                  \* per thread
  ident, timed, held, rc, \* per thread in tsleep: arguments, hold count, result
  slots, fired,           \* threads with a linked slot; the fired slots
  pending,                \* wlan_tsleep_pending[0 .. wlan_tsleep_pending_n - 1]
  tokens,                 \* tokens of wlan_tsleep_sem (freertos)
  left, nap,              \* ticks to the deadline, ticks of the current wait
  since,                  \* history: threads whose ident was woken since they
                          \* tested their condition, nobody else using it
  lost                    \* history: idents a full table did not remember

ser == <<ser_owner, ser_depth>>
sleepVars == <<ident, timed, held, rc>>
timeVars == <<left, nap>>
sleepState == <<ser, nest, where, sleepVars, slots, fired, pending, tokens, timeVars,
                since, lost, port>>

TaskPC == {"run", "tested", "suspend", "check", "wait", "resume", "give", "panic"}

SleepTypeOK ==
  /\ port \in {"freertos", "embox"}
  /\ ser_owner \in Tasks \cup {NoThread} /\ ser_depth \in 0 .. MaxDepth
  /\ nest \in [Tasks -> 0 .. MaxDepth]
  /\ where \in [Tasks -> TaskPC]
  /\ ident \in [Tasks -> Idents]
  /\ timed \in [Tasks -> {0, 1}]
  /\ held \in [Tasks -> 0 .. MaxDepth]
  /\ rc \in [Tasks -> {"0", "EWOULDBLOCK"}]
  /\ slots \subseteq Tasks /\ fired \subseteq Tasks
  /\ pending \in Seq(Idents) /\ Len(pending) <= PendingMax
  /\ tokens \in 0 .. MaxSem
  /\ left \in [Tasks -> Int] /\ nap \in [Tasks -> Nat]
  /\ since \subseteq Tasks /\ lost \subseteq Idents

SleepInit ==
  /\ port \in {"freertos", "embox"}
  /\ ser_owner = NoThread /\ ser_depth = 0
  /\ nest = [t \in Tasks |-> 0]
  /\ where = [t \in Tasks |-> "run"]
  /\ ident \in {[t \in Tasks |-> i] : i \in Idents}
  /\ timed = [t \in Tasks |-> 0]
  /\ held = [t \in Tasks |-> 0]
  /\ rc = [t \in Tasks |-> "0"]
  /\ slots = {} /\ fired = {}
  /\ pending = <<>>
  /\ tokens = 0
  /\ left = [t \in Tasks |-> 0] /\ nap = [t \in Tasks |-> 0]
  /\ since = {} /\ lost = {}

Go(t, label) == where' = [where EXCEPT ![t] = label]

-----------------------------------------------------------------------------
(* The serializer *)

Lock(t) ==
  /\ where[t] = "run" /\ nest[t] < MaxDepth
  /\ \/ ser_owner = t /\ ser_depth' = ser_depth + 1 /\ UNCHANGED ser_owner
     \/ ser_owner = NoThread /\ ser_owner' = t /\ ser_depth' = 1
  /\ nest' = [nest EXCEPT ![t] = @ + 1]
  /\ UNCHANGED <<where, sleepVars, slots, fired, pending, tokens, timeVars, since, lost, port>>

\* A thread unlocks as often as it has locked; the code panics when the
\* lock is not its own.
Unlock(t) ==
  /\ where[t] = "run" /\ nest[t] > 0
  /\ nest' = [nest EXCEPT ![t] = @ - 1]
  /\ IF ser_owner # t \/ ser_depth <= 0
     THEN Go(t, "panic") /\ UNCHANGED ser
     ELSE /\ ser_depth' = ser_depth - 1
          /\ ser_owner' = IF ser_depth = 1 THEN NoThread ELSE ser_owner
          /\ UNCHANGED where
  /\ UNCHANGED <<sleepVars, slots, fired, pending, tokens, timeVars, since, lost, port>>

-----------------------------------------------------------------------------
(* tsleep, called by thread t on ident i *)

\* The driver tests its condition, or starts the operation it will wait for,
\* and decides to sleep.  The hold on the serializer does not keep wakeup
\* away: interrupt-side callers do not take it.
Test(t, i, td) ==
  /\ where[t] = "run" /\ t \in Sleepers
  /\ ident' = [ident EXCEPT ![t] = i]
  /\ timed' = [timed EXCEPT ![t] = td]
  /\ rc' = [rc EXCEPT ![t] = "0"]
  /\ since' = since \ {u \in Tasks : u = t \/ ident[u] = i}
  /\ Go(t, "tested")
  /\ UNCHANGED <<ser, nest, held, slots, fired, pending, tokens, timeVars, lost, port>>

\* wlan_tsleep_consume_pending removes an entry by moving the last one into
\* its place.
Entries(i) == {k \in 1 .. Len(pending) : pending[k] = i}
First(i) == CHOOSE k \in Entries(i) : \A j \in Entries(i) : k <= j
Without(k) == [j \in 1 .. Len(pending) - 1 |->
                 IF j = k THEN pending[Len(pending)] ELSE pending[j]]

\* A link that does not look at the remembered wakeups.
LinkBlind(t) ==
  /\ where[t] = "tested"
  /\ slots' = slots \cup {t}
  /\ fired' = fired \ {t}
  /\ UNCHANGED pending
  /\ since' = since \ {t}
  /\ Go(t, "suspend")
  /\ UNCHANGED <<ser, nest, sleepVars, tokens, timeVars, lost, port>>

\* First critical section: link the slot and consume a remembered wakeup.
Link(t) ==
  /\ where[t] = "tested"
  /\ slots' = slots \cup {t}
  /\ IF Entries(ident[t]) # {}
     THEN pending' = Without(First(ident[t])) /\ fired' = fired \cup {t}
     ELSE fired' = fired \ {t} /\ UNCHANGED pending
  /\ since' = since \ {t}
  /\ Go(t, "suspend")
  /\ UNCHANGED <<ser, nest, sleepVars, tokens, timeVars, lost, port>>

\* The deadline, then wlan_port_serializer_suspend().
Suspend(t) ==
  /\ where[t] = "suspend"
  /\ left' = [left EXCEPT ![t] = IF timed[t] = 1 THEN Timo ELSE 0]
  /\ IF ser_owner = t
     THEN /\ held' = [held EXCEPT ![t] = ser_depth]
          /\ ser_owner' = NoThread /\ ser_depth' = 0
     ELSE held' = [held EXCEPT ![t] = 0] /\ UNCHANGED ser
  /\ Go(t, "check")
  /\ UNCHANGED <<nest, ident, timed, rc, slots, fired, pending, tokens, nap, since, lost, port>>

\* The time left in unsigned ticks.
LeftMsUnsigned(ticks) == ticks % TickMod

\* The time left as the loop computes it from `ticks' = deadline - now.
\* FreeRTOS: unsigned TickType_t arithmetic, pdTICKS_TO_MS included, and
\* the sign is looked at only afterwards.  embox: signed milliseconds.
LeftMs(ticks) ==
  IF port = "freertos"
  THEN LET ms == (((ticks % TickMod) * MsPerSec) % TickMod) \div MsPerSec
       IN IF ms >= TickMod \div 2 THEN ms - TickMod ELSE ms
  ELSE ticks

\* The loop test with wlan_tsleep_mtx held; leaving the loop unlinks the slot.
Check(t) ==
  /\ where[t] = "check"
  /\ IF t \in fired \/ (timed[t] = 1 /\ LeftMs(left[t]) <= 0)
     THEN /\ rc' = [rc EXCEPT ![t] = IF t \in fired THEN "0" ELSE "EWOULDBLOCK"]
          /\ slots' = slots \ {t} /\ fired' = fired \ {t}
          /\ left' = [left EXCEPT ![t] = 0]
          /\ Go(t, "resume")
          /\ UNCHANGED nap
     ELSE /\ nap' = [nap EXCEPT ![t] =
                       IF timed[t] = 1 /\ LeftMs(left[t]) < Quantum
                       THEN LeftMs(left[t]) ELSE Quantum]
          /\ Go(t, "wait")
          /\ UNCHANGED <<rc, slots, fired, left>>
  /\ UNCHANGED <<ser, nest, ident, timed, held, pending, tokens, since, lost, port>>

\* xSemaphoreTake got a token.
GetToken(t) ==
  /\ where[t] = "wait" /\ tokens > 0
  /\ tokens' = tokens - 1
  /\ nap' = [nap EXCEPT ![t] = 0]
  /\ Go(t, "check")
  /\ UNCHANGED <<ser, nest, sleepVars, slots, fired, pending, left, since, lost, port>>

\* Only a timed sleep polls.
NapOverTimed(t) ==
  /\ where[t] = "wait" /\ nap[t] = 0 /\ timed[t] = 1
  /\ Go(t, "check")
  /\ UNCHANGED <<ser, nest, sleepVars, slots, fired, pending, tokens, timeVars, since, lost, port>>

\* The wait timed out.
NapOver(t) ==
  /\ where[t] = "wait" /\ nap[t] = 0
  /\ Go(t, "check")
  /\ UNCHANGED <<ser, nest, sleepVars, slots, fired, pending, tokens, timeVars, since, lost, port>>

\* wlan_port_serializer_resume(held): tsleep returns rc.
Resume(t) ==
  /\ where[t] = "resume"
  /\ IF held[t] = 0
     THEN UNCHANGED ser
     ELSE /\ ser_owner = NoThread
          /\ ser_owner' = t /\ ser_depth' = held[t]
  /\ held' = [held EXCEPT ![t] = 0]
  /\ Go(t, "run")
  /\ UNCHANGED <<nest, ident, timed, rc, slots, fired, pending, tokens, timeVars, since, lost, port>>

-----------------------------------------------------------------------------
(* wakeup(i), called by thread t *)

Waiting(i) == {u \in slots : ident[u] = i}

\* embox broadcasts the condition in the same critical section; FreeRTOS
\* gives one token afterwards.
Notify(t) ==
  IF port = "freertos"
  THEN Go(t, "give") /\ UNCHANGED nap
  ELSE /\ where' = [u \in Tasks |-> IF where[u] = "wait" THEN "check" ELSE where[u]]
       /\ nap' = [u \in Tasks |-> 0]

\* No other thread is in tsleep on u's ident.
Alone(u) ==
  \A v \in Tasks \ {u} : ident[v] # ident[u] \/ where[v] \in {"run", "give"}

Remember(i) ==
  IF Len(pending) < PendingMax
  THEN pending' = Append(pending, i) /\ UNCHANGED lost
  ELSE lost' = lost \cup {i} /\ UNCHANGED pending

\* A wakeup that remembers nothing.
WakeupForgetful(t, i) ==
  /\ where[t] = "run"
  /\ fired' = fired \cup Waiting(i)
  /\ since' = since \cup {u \in Tasks : where[u] = "tested" /\ ident[u] = i /\ Alone(u)}
  /\ Notify(t)
  /\ UNCHANGED <<ser, nest, sleepVars, slots, pending, tokens, left, lost, port>>

\* The critical section: fire every matching slot, or remember the ident.
Wakeup(t, i) ==
  /\ where[t] = "run"
  /\ fired' = fired \cup Waiting(i)
  /\ since' = since \cup {u \in Tasks : where[u] = "tested" /\ ident[u] = i /\ Alone(u)}
  /\ IF Waiting(i) # {} THEN UNCHANGED <<pending, lost>> ELSE Remember(i)
  /\ Notify(t)
  /\ UNCHANGED <<ser, nest, sleepVars, slots, tokens, left, port>>

GiveToken(t) ==
  /\ where[t] = "give"
  /\ tokens' = IF tokens < MaxSem THEN tokens + 1 ELSE tokens
  /\ Go(t, "run")
  /\ UNCHANGED <<ser, nest, sleepVars, slots, fired, pending, timeVars, since, lost, port>>

\* The clock.
Tick ==
  /\ left' = [t \in Tasks |->
                IF where[t] \in {"check", "wait"} /\ timed[t] = 1 /\ left[t] > -MaxLate
                THEN left[t] - 1 ELSE left[t]]
  /\ nap' = [t \in Tasks |-> IF nap[t] > 0 THEN nap[t] - 1 ELSE 0]
  /\ UNCHANGED <<ser, nest, where, sleepVars, slots, fired, pending, tokens, since, lost, port>>

-----------------------------------------------------------------------------
Tsleep(t) ==
  \/ Link(t) \/ Suspend(t) \/ Check(t)
  \/ GetToken(t) \/ NapOver(t) \/ Resume(t)

SleepNext ==
  \/ \E t \in Tasks :
       \/ Lock(t) \/ Unlock(t)
       \/ \E i \in Idents : Wakeup(t, i) \/ \E td \in {0, 1} : Test(t, i, td)
       \/ Tsleep(t) \/ GiveToken(t)
  \/ Tick

SleepSpec == SleepInit /\ [][SleepNext]_sleepState

\* The scheduler runs every thread in tsleep and wakeup, and time passes.
SleepFairSpec ==
  /\ SleepSpec /\ WF_sleepState(Tick)
  /\ \A t \in Tasks :
       /\ WF_sleepState(Link(t) \/ Suspend(t) \/ Check(t) \/ NapOver(t))
       /\ WF_sleepState(GiveToken(t))

-----------------------------------------------------------------------------
(* Properties *)

\* The serializer's unlock never panics, and a sleep is neutral: a thread that
\* runs driver code holds the lock exactly as deep as it has nested its lock
\* calls; while it sleeps it holds nothing and `held' is what it will restore.
SerializerBalanced ==
  \A t \in Tasks :
    /\ where[t] \in {"run", "tested", "suspend", "give"} =>
         /\ nest[t] > 0 <=> ser_owner = t
         /\ nest[t] > 0 => ser_depth = nest[t]
    /\ where[t] \in {"check", "wait", "resume"} => ser_owner # t /\ held[t] = nest[t]
    /\ where[t] # "panic"

\* wakeup and tsleep never miss each other: no sleeper waits unfired while a
\* wakeup for its ident sits in the table of remembered wakeups.
NoneWaitsForRemembered == \A t \in slots \ fired : Entries(ident[t]) = {}

\* The window the remembered wakeups exist for: a wakeup that arrives after
\* the condition was tested and before the slot is linked fires the slot,
\* unless a full table dropped a wakeup of that ident, or another thread has
\* come to sleep on it and may have used the one entry (NoWakeupLost fails).
WindowCovered ==
  [][\A t \in Tasks :
       where[t] = "tested" /\ where'[t] = "suspend" /\ t \in since
         => t \in fired' \/ ident[t] \in lost]_sleepState

\* A fired sleeper leaves its wait, also when several sleep on one ident and
\* FreeRTOS gives a single token: the poll quantum finds the flag.  No slot
\* loses the flag while it is linked, and none is fired and linked for ever.
FiredLeaves ==
  /\ [][fired \cap slots \cap slots' \subseteq fired']_sleepState
  /\ \A t \in Sleepers : []<>(t \notin fired \cap slots)

\* A timed tsleep ends its wait, woken or not, also when the thread is first run
\* after its deadline: none is in the loop for ever.  On FreeRTOS that last case
\* is the exception: the difference is unsigned there, and a thread that is late
\* naps on.
TimedReturns ==
  \A t \in Sleepers :
    []<>(\/ timed[t] = 0 \/ where[t] \notin {"check", "wait"}
         \/ port = "freertos" /\ left[t] < 0)

\* The invariants of one state together: the serializer, the slots and the table of
\* remembered wakeups agree with where each thread is in tsleep.
SleepInv ==
  /\ SleepTypeOK /\ SerializerBalanced /\ NoneWaitsForRemembered
  /\ slots = {t \in Tasks : where[t] \in {"suspend", "check", "wait"}}

-----------------------------------------------------------------------------
(* What comments in the sources lead one to expect and the code does not   *)
(* keep: TLC finds a behaviour against each (see README).                  *)

\* "remembered here for a short window": a wakeup taken from the table came
\* after the sleeper tested its condition, so it is not an old one.
NoStaleWakeup ==
  [][\A t \in Tasks :
       where[t] = "tested" /\ where'[t] = "suspend" /\ t \in fired' => t \in since]_sleepState

\* "a wakeup that arrives in that window would otherwise be lost": with the
\* table, a wakeup between the test and the link always fires the slot.
NoWakeupLost ==
  [][\A t \in Tasks :
       where[t] = "tested" /\ where'[t] = "suspend" /\ t \in since => t \in fired']_sleepState

\* "identified bounded waits": a timed sleeper that looks at the clock at or
\* after its deadline leaves the loop.
OverdueReturns ==
  [][\A t \in Tasks :
       where[t] = "check" /\ timed[t] = 1 /\ left[t] <= 0 /\ where'[t] # "check"
         => where'[t] = "resume"]_sleepState

=============================================================================
