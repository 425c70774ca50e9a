---------------------------- MODULE IwmLinkProofs ----------------------------
(***************************************************************************)
(* The safety properties of IwmLink for every bound on the request queue.  *)
(*                                                                         *)
(* RunningAlive does not follow from itself: iwm_init ends with RUNNING    *)
(* because its last command was answered, and that the device was not      *)
(* stopped since is known only through sc_generation.  FreshIsUp says so.  *)
(* ScanFlagTrue needs to know that no scan is left over from before a      *)
(* restart while the worker restarts the device (RestartScan).             *)
(***************************************************************************)
EXTENDS IwmLink, TLAPS

\* What is captured and still matches was captured on a device that is up.
FreshIsUp == \A t \in Threads : gen[t] = "fresh" => "STOPPED" \notin sc_flags

\* During a restart SCANNING can only be the flag of the scan that was reset.
RestartScan ==
  pc["worker"] \in {"reload", "reconf"} => "SCANNING" \notin sc_flags \/ orphan = "yes"

Places == {"idle", "load", "conf", "reload", "reconf", "filter", "scan", "cmd", "up"}

LinkInv ==
  /\ gen \in [Threads -> {"fresh", "stale"}]
  /\ pc \in [Threads \cup Users -> Places]
  /\ FreshIsUp
  /\ RunningAlive
  /\ ScanFlagTrue
  /\ RestartScan

\* The initial state: everything off and idle.
LEMMA LinkInit == Init => LinkInv
BY DEF Init, LinkInv, FreshIsUp, RunningAlive, ScanFlagTrue, RestartScan, Threads, Users, Places

\* Every branch of iwm_do_newstate keeps the invariant, whatever is queued.
LEMMA ServeKeeps ==
  ASSUME LinkInv, NEW n, NEW q, Serve(n, q) PROVE LinkInv'
<1> USE DEF LinkInv, FreshIsUp, RunningAlive, ScanFlagTrue, RestartScan, Threads, Users, Places, Goto,
            history
<1>1. CASE ForceInit(n, q)
  BY <1>1 DEF ForceInit, iwm_init, StaleGen, StackInit
<1>2. CASE Restart(n, q)
  BY <1>2 DEF Restart
<1>3. CASE ToInit(n, q)
  BY <1>3 DEF ToInit, StackInit
<1>4. CASE ToScan(n, q)
  BY <1>4 DEF ToScan
<1>5. CASE ToJoined(n, q)
  BY <1>5, SMTT(30) DEF ToJoined
<1> QED
  BY <1>1, <1>2, <1>3, <1>4, <1>5 DEF Serve

\* Every step keeps the invariant.
LEMMA LinkNext == LinkInv /\ [Next]_vars => LinkInv'
<1> SUFFICES ASSUME LinkInv, [Next]_vars PROVE LinkInv'
  OBVIOUS
<1>1. CASE Take
  BY <1>1, ServeKeeps DEF Take
<1>2. CASE FilterDone
  BY <1>2, ServeKeeps DEF FilterDone
<1> USE DEF LinkInv, FreshIsUp, RunningAlive, ScanFlagTrue, RestartScan, Threads, Users, Places, Goto,
            history
<1>3. CASE TakeFromRun
  BY <1>3 DEF TakeFromRun, FilterFirst, WorkerIdle
<1>4. CASE TakeStale
  BY <1>4 DEF TakeStale, WorkerIdle
<1>5. CASE ScanStarted
  BY <1>5 DEF ScanStarted, Answered
<1>6. CASE JoinDone
  BY <1>6 DEF JoinDone
<1>7. CASE CommandFailed
  BY <1>7 DEF CommandFailed, Unanswered
<1>8. CASE Restarted
  BY <1>8 DEF Restarted, Unanswered
<1>9. ASSUME NEW t \in Threads, Loaded(t) PROVE LinkInv'
  BY <1>9 DEF Loaded
<1>10. ASSUME NEW t \in Threads, InitDone(t) PROVE LinkInv'
  BY <1>10 DEF InitDone, Answered
<1>11. ASSUME NEW t \in Threads, InitFailed(t) PROVE LinkInv'
  BY <1>11 DEF InitFailed, iwm_stop, StaleGen
<1>12. CASE RegUp
  BY <1>12 DEF RegUp
<1>13. CASE RegUpInit
  BY <1>13 DEF RegUpInit, iwm_init, StaleGen
<1>14. CASE RegScan \/ RegScanAsk \/ SupplicantAsk \/ Receive \/ Beacon
  BY <1>14 DEF RegScan, RegScanAsk, SupplicantAsk, Receive, Beacon, Ask
<1>15. CASE ScanComplete
  BY <1>15 DEF ScanComplete
<1>16. CASE Fatal
  BY <1>16 DEF Fatal, iwm_stop, StaleGen
<1>17. CASE UNCHANGED vars
  BY <1>17 DEF vars
<1> QED
  BY <1>1, <1>2, <1>3, <1>4, <1>5, <1>6, <1>7, <1>8, <1>9, <1>10, <1>11, <1>12, <1>13, <1>14,
     <1>15, <1>16, <1>17 DEF Next, Worker

\* The invariant holds throughout.
THEOREM LinkInvAlways == Spec => []LinkInv
BY LinkInit, LinkNext, PTL DEF Spec

\* IFF_RUNNING implies a device that is up, whichever threads initialise,
\* restart and stop it at the same time.
THEOREM RunningMeansUp == Spec => []RunningAlive
BY LinkInvAlways, PTL DEF LinkInv

\* IWM_FLAG_SCANNING implies a scan of the firmware, except after a restart
\* in the middle of one.
THEOREM ScanningMeansScan == Spec => []ScanFlagTrue
BY LinkInvAlways, PTL DEF LinkInv

\* The generation check: AUTH, ASSOC and RUN are entered on a device that is up.
THEOREM JoinsOnDevice == Spec => JoinedOnDevice
<1>1. ASSUME LinkInv, [Next]_vars, ic_state' \in Joined, ic_state' # ic_state
      PROVE "STOPPED" \notin sc_flags /\ fw = "on"
  <2>1. JoinDone
    BY <1>1 DEF Next, Worker, Take, FilterDone, Serve, ForceInit, Restart, ToInit, ToScan, ToJoined,
       StackInit, TakeFromRun, TakeStale, ScanStarted, CommandFailed, Restarted, Loaded, InitDone,
       InitFailed, RegUp, RegUpInit, RegScan, RegScanAsk, SupplicantAsk, Receive, Beacon,
       ScanComplete, Fatal, Joined, vars
  <2> QED
    BY <1>1, <2>1, SMTT(30) DEF JoinDone, Answered, LinkInv, FreshIsUp, Threads
<1> QED
  BY <1>1, LinkInvAlways, PTL DEF Spec, JoinedOnDevice
=============================================================================
