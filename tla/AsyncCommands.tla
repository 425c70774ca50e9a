---------------------------- MODULE AsyncCommands ----------------------------
(***************************************************************************)
(* What the callers of urtwn_do_async() and urtwn_wait_async() rely on:    *)
(* commands are run one at a time, in the order they were posted, and a    *)
(* thread that waits comes back only when every command posted before its  *)
(* call has run.  The promise ends when more commands are posted than the  *)
(* ring of the driver holds.                                               *)
(***************************************************************************)
EXTENDS Naturals

VARIABLES
  posted,     \* number of commands posted
  ran,        \* the commands that have been run
  waiter,     \* the thread that waits: "idle" or "waiting"
  upto,       \* posted when it began to wait
  mode        \* "fits" until the commands outnumber the ring, then "overrun"

vars == <<posted, ran, waiter, upto, mode>>

Init ==
  /\ posted = 0 /\ ran = {}
  /\ waiter = "idle" /\ upto = 0
  /\ mode = "fits"

Post ==
  /\ posted' = posted + 1
  /\ UNCHANGED <<ran, waiter, upto, mode>>

\* The oldest command not run yet.
RunOldest ==
  /\ \E n \in 1 .. posted : ran = 1 .. n - 1 /\ ran' = 1 .. n
  /\ UNCHANGED <<posted, waiter, upto, mode>>

BeginWait ==
  /\ waiter = "idle" /\ waiter' = "waiting"
  /\ upto' = posted
  /\ UNCHANGED <<posted, ran, mode>>

EndWait ==
  /\ waiter = "waiting" /\ waiter' = "idle"
  /\ 1 .. upto \subseteq ran
  /\ UNCHANGED <<posted, ran, upto, mode>>

\* One command too many; nothing is promised from here on.
Overrun == mode' = "overrun"

Next ==
  \/ mode = "fits" /\ (Post \/ RunOldest \/ BeginWait \/ EndWait)
  \/ Overrun

Spec == Init /\ [][Next]_vars
=============================================================================
