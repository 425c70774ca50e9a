------------------------------- MODULE IwmLink -------------------------------
(***************************************************************************)
(* The state machine of driver/iwm/if_iwm.c: a queue of state requests, a  *)
(* worker that serves them with sleeping firmware commands, the shell that *)
(* brings the interface up or scans (iwm_reg.c), and interrupts that end a *)
(* scan or stop the device in the middle of any of this.                   *)
(*                                                                         *)
(* Driver and net80211 run under the port's serializer, which a thread     *)
(* gives up only in tsleep: an action is the code between two sleeps.      *)
(* sc_generation is only ever compared with a value captured earlier, so   *)
(* the model keeps the outcome of the comparison: a request or a command   *)
(* is "fresh" until the next sc_generation++ makes it "stale".             *)
(***************************************************************************)
EXTENDS Naturals, Sequences

CONSTANTS
  QMax           \* bound: requests waiting in sc_nswq

ASSUME QAssumption == QMax \in Nat \ {0}

VARIABLES
  ic_state,
  f_scan,        \* IEEE80211_F_SCAN in ic_flags: "set" or "clear"
  known,         \* "yes" when ic_scan holds a BSS the supplicant may pick
  sc_flags,      \* subset of {"SCANNING", "STOPPED", "HW_INITED"}
  if_flags,      \* subset of {"UP", "RUNNING"}
  nswq,          \* sc_nswq: [st, gen] with ns_nstate and its freshness
  pc, gen,       \* of each thread: where it sleeps, the freshness of the
                 \* command it sleeps for
  nst,           \* the request the worker serves
  fw,            \* "boot" while an image is loaded, "on" while it answers,
                 \* "off" after iwm_stop_device
  fwscan,        \* "yes" while the firmware scans
  failed,        \* history: "yes" once a command failed, the device not stopped
  orphan         \* history: "yes" once the device was reset under SCANNING

history == <<failed, orphan>>
vars == <<ic_state, f_scan, known, sc_flags, if_flags, nswq, pc, gen, nst, fw, fwscan, history>>

States == {"INIT", "SCAN", "AUTH", "ASSOC", "RUN"}
Joined == {"AUTH", "ASSOC", "RUN"}
Threads == {"worker", "shell"}
Users == {"shell", "supplicant"}

\* enum ieee80211_state: s comes before t.
Before(s, t) ==
  LET order == <<"INIT", "SCAN", "AUTH", "ASSOC", "RUN">>
  IN \E i, j \in DOMAIN order : i < j /\ order[i] = s /\ order[j] = t

Request(s) == [st |-> s, gen |-> "fresh"]
Room == Len(nswq) < QMax

\* sc_generation++: what was captured before no longer matches.
StaleQueue(q) == [i \in DOMAIN q |-> [q[i] EXCEPT !.gen = "stale"]]
StaleGen == gen' = [t \in Threads |-> "stale"]

Goto(t, where) == pc' = [pc EXCEPT ![t] = where]

\* The command thread t sleeps for is answered, and by the device it was sent
\* to: iwm_send_cmd returns 0.
Answered(t) == gen[t] = "fresh" /\ fw = "on"

\* It returns an error, which is no surprise on a stopped device.
Unanswered == failed' = IF "STOPPED" \in sc_flags THEN failed ELSE "yes"
-----------------------------------------------------------------------------
(* The pieces the handlers are made of *)

\* Mutant of StopQueue: nothing brings the stack to INIT.
StopQueueSilent(q, s) == StaleQueue(q)

\* iwm_stop's effect on the queue q in state s: the generation moves on, then
\* INIT is requested unless the stack is there already.
StopQueue(q, s) ==
  IF s = "INIT" THEN StaleQueue(q) ELSE Append(StaleQueue(q), Request("INIT"))

\* iwm_stop in state s.
iwm_stop(s) ==
  /\ sc_flags' = (sc_flags \ {"HW_INITED", "SCANNING"}) \cup {"STOPPED"}
  /\ nswq' = StopQueue(nswq, s)
  /\ StaleGen
  /\ fw' = "off" /\ fwscan' = "no"

\* sc_newstate(INIT), the stack's own handler: a scan is cancelled, and the
\* tables are emptied unless the stack was in INIT.
StackInit ==
  /\ ic_state' = "INIT"
  /\ f_scan' = IF ic_state = "SCAN" THEN "clear" ELSE f_scan
  /\ known' = IF ic_state = "INIT" THEN known ELSE "no"

\* iwm_endscan: the end reaches net80211 only in state SCAN.
EndScan == IF ic_state = "SCAN" THEN "clear" ELSE f_scan
-----------------------------------------------------------------------------
(* iwm_init_hw: firmware is loaded, then the device is configured *)

\* iwm_init by thread t up to its first sleep; q is the queue it finds.
iwm_init(t, q) ==
  /\ sc_flags' = sc_flags \ {"STOPPED", "SCANNING", "HW_INITED"}
  /\ nswq' = StaleQueue(q)
  /\ StaleGen
  /\ fw' = "boot" /\ fwscan' = "no"
  /\ Goto(t, "load")

\* The image is alive.  The wait for it has no generation check, but the
\* first command after it fails on a stopped device.
Loaded(t) ==
  /\ pc[t] \in {"load", "reload"} /\ fw # "off" /\ "STOPPED" \notin sc_flags
  /\ fw' = "on"
  /\ Goto(t, IF pc[t] = "load" THEN "conf" ELSE "reconf")
  /\ gen' = [gen EXCEPT ![t] = "fresh"]
  /\ UNCHANGED <<ic_state, f_scan, known, sc_flags, if_flags, nswq, nst, fwscan, history>>

\* Mutant of InitDone: a stop during the last command goes unnoticed.
InitDoneUnchecked(t) ==
  /\ pc[t] = "conf"
  /\ if_flags' = if_flags \cup {"RUNNING"}
  /\ sc_flags' = sc_flags \cup {"HW_INITED"}
  /\ f_scan' = "set"
  /\ nswq' = Append(nswq, Request("SCAN"))
  /\ Goto(t, "idle")
  /\ UNCHANGED <<ic_state, known, gen, nst, fw, fwscan, history>>

\* The end of iwm_init when iwm_init_hw succeeds: RUNNING, and a first scan.
InitDone(t) ==
  /\ pc[t] = "conf" /\ Answered(t)
  /\ if_flags' = if_flags \cup {"RUNNING"}
  /\ sc_flags' = sc_flags \cup {"HW_INITED"}
  /\ f_scan' = "set"
  /\ nswq' = Append(nswq, Request("SCAN"))
  /\ Goto(t, "idle")
  /\ UNCHANGED <<ic_state, known, gen, nst, fw, fwscan, history>>

\* The end of iwm_init when iwm_init_hw fails.
InitFailed(t) ==
  /\ pc[t] \in {"load", "conf"}
  /\ Unanswered
  /\ iwm_stop(ic_state)
  /\ if_flags' = if_flags \ {"RUNNING"}
  /\ Goto(t, "idle")
  /\ UNCHANGED <<ic_state, f_scan, known, nst, orphan>>
-----------------------------------------------------------------------------
(* The worker: iwm_newstate_cb and iwm_do_newstate *)

WorkerIdle == pc["worker"] = "idle"

\* iwm_do_newstate from the reset of the device on; q is what is queued
\* behind the request for state n.
\* Leaving AUTH, ASSOC or RUN for a lower state that is not INIT: through
\* INIT, iwm_stop and iwm_init.
ForceInit(n, q) ==
  /\ ic_state \in Joined /\ Before(n, ic_state) /\ n # "INIT"
  /\ StackInit
  /\ if_flags' = if_flags \ {"RUNNING"}
  /\ iwm_init("worker", q)
  /\ UNCHANGED history

\* Leaving them for INIT: iwm_stop_device and iwm_init_hw.
Restart(n, q) ==
  /\ ic_state \in Joined /\ n = "INIT"
  /\ fw' = "boot" /\ fwscan' = "no"
  /\ orphan' = IF "SCANNING" \in sc_flags THEN "yes" ELSE orphan
  /\ nswq' = q
  /\ Goto("worker", "reload")
  /\ UNCHANGED <<ic_state, f_scan, known, sc_flags, if_flags, gen, failed>>

ToInit(n, q) ==
  /\ ic_state \notin Joined /\ n = "INIT"
  /\ StackInit
  /\ nswq' = q
  /\ Goto("worker", "idle")
  /\ UNCHANGED <<sc_flags, if_flags, gen, fw, fwscan, history>>

\* SCAN: announce a scan that has not begun, join one that the firmware is
\* doing, otherwise start one.
ToScan(n, q) ==
  /\ ic_state \notin Joined /\ n = "SCAN"
  /\ LET begin == f_scan = "clear"
         join == ~begin /\ "SCANNING" \in sc_flags
         start == ~begin /\ ~join /\ "STOPPED" \notin sc_flags
     IN /\ f_scan' = "set"
        /\ nswq' = IF begin THEN Append(q, Request("SCAN")) ELSE q
        /\ ic_state' = IF join THEN "SCAN" ELSE ic_state
        /\ Goto("worker", IF start THEN "scan" ELSE "idle")
        /\ gen' = IF start THEN [gen EXCEPT !["worker"] = "fresh"] ELSE gen
  /\ UNCHANGED <<known, sc_flags, if_flags, fw, fwscan, history>>

\* AUTH, ASSOC or RUN, from below or again: commands to the firmware.
ToJoined(n, q) ==
  /\ n \in Joined /\ ~(ic_state \in Joined /\ Before(n, ic_state))
  /\ nswq' = q
  /\ LET live == "STOPPED" \notin sc_flags
     IN /\ Goto("worker", IF live THEN "cmd" ELSE "idle")
        /\ gen' = IF live THEN [gen EXCEPT !["worker"] = "fresh"] ELSE gen
  /\ UNCHANGED <<ic_state, f_scan, known, sc_flags, if_flags, fw, fwscan, history>>

Serve(n, q) == ForceInit(n, q) \/ Restart(n, q) \/ ToInit(n, q) \/ ToScan(n, q) \/ ToJoined(n, q)

\* Leaving RUN starts with a command that turns off the beacon filter.
FilterFirst(n) == ic_state = "RUN" /\ n # "RUN" /\ "STOPPED" \notin sc_flags

\* iwm_newstate_cb with a request of the current generation.
Take ==
  /\ WorkerIdle /\ nswq # <<>> /\ Head(nswq).gen = "fresh" /\ ~FilterFirst(Head(nswq).st)
  /\ nst' = Head(nswq).st
  /\ Serve(nst', Tail(nswq))

TakeFromRun ==
  /\ WorkerIdle /\ nswq # <<>> /\ Head(nswq).gen = "fresh" /\ FilterFirst(Head(nswq).st)
  /\ nst' = Head(nswq).st
  /\ nswq' = Tail(nswq)
  /\ Goto("worker", "filter") /\ gen' = [gen EXCEPT !["worker"] = "fresh"]
  /\ UNCHANGED <<ic_state, f_scan, known, sc_flags, if_flags, fw, fwscan, history>>

\* Whatever became of that command, the transition goes on.
FilterDone ==
  /\ pc["worker"] = "filter"
  /\ Serve(nst, nswq)
  /\ UNCHANGED nst

\* iwm_newstate_cb with a request from before a stop: only INIT counts.
TakeStale ==
  /\ WorkerIdle /\ nswq # <<>> /\ Head(nswq).gen = "stale"
  /\ nswq' = Tail(nswq)
  /\ IF Head(nswq).st = "INIT" THEN StackInit ELSE UNCHANGED <<ic_state, f_scan, known>>
  /\ UNCHANGED <<sc_flags, if_flags, pc, gen, nst, fw, fwscan, history>>

\* The scan command is answered; the scan itself takes longer than that.
ScanStarted ==
  /\ pc["worker"] = "scan" /\ Answered("worker")
  /\ sc_flags' = sc_flags \cup {"SCANNING"}
  /\ ic_state' = "SCAN"
  /\ fwscan' = "yes"
  /\ Goto("worker", "idle")
  /\ UNCHANGED <<f_scan, known, if_flags, nswq, gen, nst, fw, history>>

\* Mutant of JoinDone: the answer counts whatever happened since the command.
JoinDoneUnchecked ==
  /\ pc["worker"] = "cmd"
  /\ ic_state' = nst
  /\ Goto("worker", "idle")
  /\ UNCHANGED <<f_scan, known, sc_flags, if_flags, nswq, gen, nst, fw, fwscan, history>>

\* The commands for AUTH, ASSOC or RUN are answered: sc_newstate.
JoinDone ==
  /\ pc["worker"] = "cmd" /\ Answered("worker")
  /\ ic_state' = nst
  /\ Goto("worker", "idle")
  /\ UNCHANGED <<f_scan, known, sc_flags, if_flags, nswq, gen, nst, fw, fwscan, history>>

\* They are not: iwm_do_newstate returns the error, which nobody looks at.
CommandFailed ==
  /\ pc["worker"] \in {"scan", "cmd"}
  /\ Unanswered
  /\ Goto("worker", "idle")
  /\ UNCHANGED <<ic_state, f_scan, known, sc_flags, if_flags, nswq, gen, nst, fw, fwscan, orphan>>

\* The restart for INIT ends; its result is ignored.  An image that does not
\* load leaves the device on, a later error turns it off.
Restarted ==
  /\ \/ /\ pc["worker"] = "reload"
        /\ Unanswered
        /\ UNCHANGED <<fw, fwscan>>
     \/ /\ pc["worker"] = "reconf" /\ Answered("worker")
        /\ UNCHANGED <<fw, fwscan, failed>>
     \/ /\ pc["worker"] = "reconf" /\ Unanswered
        /\ fw' = "off" /\ fwscan' = "no"
  /\ StackInit
  /\ Goto("worker", "idle")
  /\ UNCHANGED <<sc_flags, if_flags, nswq, gen, nst, orphan>>
-----------------------------------------------------------------------------
(* The shell and the supplicant *)

\* iwm_reg_up looks at the flags before it has the serializer.
RegUp ==
  /\ pc["shell"] = "idle"
  /\ "STOPPED" \notin sc_flags /\ "RUNNING" \notin if_flags
  /\ if_flags' = if_flags \cup {"UP"}
  /\ Goto("shell", "up")
  /\ UNCHANGED <<ic_state, f_scan, known, sc_flags, nswq, gen, nst, fw, fwscan, history>>

\* if_init under the serializer; nothing to do on an initialised device.
RegUpInit ==
  /\ pc["shell"] = "up"
  /\ \/ /\ "HW_INITED" \in sc_flags
        /\ Goto("shell", "idle")
        /\ UNCHANGED <<sc_flags, nswq, gen, fw, fwscan>>
     \/ /\ "HW_INITED" \notin sc_flags
        /\ iwm_init("shell", nswq)
  /\ UNCHANGED <<ic_state, f_scan, known, if_flags, nst, history>>

\* iwm_reg_scan, likewise: the flags first.
RegScan ==
  /\ pc["supplicant"] = "idle" /\ "RUNNING" \in if_flags
  /\ Goto("supplicant", "scan")
  /\ UNCHANGED <<ic_state, f_scan, known, sc_flags, if_flags, nswq, gen, nst, fw, fwscan, history>>

Ask(n) ==
  /\ Room
  /\ nswq' = Append(nswq, Request(n))

RegScanAsk ==
  /\ pc["supplicant"] = "scan"
  /\ Ask("SCAN")
  /\ Goto("supplicant", "idle")
  /\ UNCHANGED <<ic_state, f_scan, known, sc_flags, if_flags, gen, nst, fw, fwscan, history>>

\* freertos_associate needs a BSS of the scan table; freertos_deauthenticate
\* and the scan timeout ask for INIT.
SupplicantAsk ==
  /\ pc["supplicant"] = "idle"
  /\ \E n \in {"INIT"} \cup (IF known = "yes" THEN {"AUTH"} ELSE {}) : Ask(n)
  /\ UNCHANGED <<ic_state, f_scan, known, sc_flags, if_flags, pc, gen, nst, fw, fwscan, history>>
-----------------------------------------------------------------------------
(* Interrupts *)

\* What a frame of the peer, or its silence, asks for in each state.
Heard(s) ==
  CASE s = "AUTH" -> {"SCAN", "AUTH", "ASSOC"}
    [] s = "ASSOC" -> {"SCAN", "AUTH", "ASSOC", "RUN"}
    [] s = "RUN" -> {"AUTH", "ASSOC"} \cup (IF f_scan = "clear" THEN {"SCAN"} ELSE {})
    [] OTHER -> {}

Receive ==
  /\ fw = "on"
  /\ \E n \in Heard(ic_state) : Ask(n)
  /\ UNCHANGED <<ic_state, f_scan, known, sc_flags, if_flags, pc, gen, nst, fw, fwscan, history>>

Beacon ==
  /\ fwscan = "yes" /\ f_scan = "set" /\ known = "no"
  /\ known' = "yes"
  /\ UNCHANGED <<ic_state, f_scan, sc_flags, if_flags, nswq, pc, gen, nst, fw, fwscan, history>>

\* Mutant of ScanComplete: the driver's own flag stays.
ScanCompleteKeep ==
  /\ fwscan = "yes"
  /\ fwscan' = "no"
  /\ f_scan' = IF "SCANNING" \in sc_flags THEN EndScan ELSE f_scan
  /\ UNCHANGED <<ic_state, known, sc_flags, if_flags, nswq, pc, gen, nst, fw, history>>

\* The scan-complete notifications of iwm_notif_intr.
ScanComplete ==
  /\ fwscan = "yes"
  /\ fwscan' = "no"
  /\ f_scan' = IF "SCANNING" \in sc_flags THEN EndScan ELSE f_scan
  /\ sc_flags' = sc_flags \ {"SCANNING"}
  /\ UNCHANGED <<ic_state, known, if_flags, nswq, pc, gen, nst, fw, history>>

\* iwm_softintr: a firmware or hardware error, or the radio switched off.
Fatal ==
  /\ fw # "off" /\ Room
  /\ f_scan' = IF "SCANNING" \in sc_flags THEN EndScan ELSE f_scan
  /\ if_flags' = if_flags \ {"UP", "RUNNING"}
  /\ iwm_stop(ic_state)
  /\ UNCHANGED <<ic_state, known, pc, nst, history>>
-----------------------------------------------------------------------------
Init ==
  /\ ic_state = "INIT" /\ f_scan = "clear" /\ known = "no"
  /\ sc_flags = {} /\ if_flags = {} /\ nswq = <<>>
  /\ pc = [t \in Threads \cup Users |-> "idle"] /\ gen = [t \in Threads |-> "stale"] /\ nst = "INIT"
  /\ fw = "off" /\ fwscan = "no" /\ failed = "no" /\ orphan = "no"

Worker == Take \/ TakeFromRun \/ FilterDone \/ TakeStale \/ ScanStarted \/ JoinDone
          \/ CommandFailed \/ Restarted

Next ==
  \/ Worker
  \/ \E t \in Threads : Loaded(t) \/ InitDone(t) \/ InitFailed(t)
  \/ RegUp \/ RegUpInit \/ RegScan \/ RegScanAsk \/ SupplicantAsk
  \/ Receive \/ Beacon \/ ScanComplete \/ Fatal

Spec == Init /\ [][Next]_vars

\* The worker's task runs when it has something to do: a sleep ends with the
\* answer or after two seconds.  A firmware scan ends.
FairSpec ==
  /\ Spec
  /\ WF_vars(Worker \/ Loaded("worker") \/ InitDone("worker") \/ InitFailed("worker"))
  /\ WF_vars(ScanComplete)
-----------------------------------------------------------------------------
\* The interface says RUNNING only while the device is up: every path that
\* takes the device down, a stop during another thread's initialisation
\* included, also takes RUNNING away.  The exception is the restart for INIT,
\* which ignores a device that does not come back.
RunningAlive ==
  "RUNNING" \in if_flags =>
    /\ "STOPPED" \notin sc_flags /\ "HW_INITED" \in sc_flags
    /\ fw # "off" \/ failed = "yes"

\* IWM_FLAG_SCANNING is set only while the firmware scans, so that a scan
\* that is joined has a completion to wait for.  The exception is a restart
\* for INIT in the middle of a scan.
ScanFlagTrue ==
  "SCANNING" \in sc_flags => fwscan = "yes" \/ orphan = "yes"

\* The stack moves to AUTH, ASSOC or RUN only on a device that is up: neither
\* a request nor an answer from before a stop gets through sc_generation.
JoinedOnDevice ==
  [][ic_state' \in Joined /\ ic_state' # ic_state =>
       "STOPPED" \notin sc_flags /\ fw = "on"]_vars

\* A scan the stack waits for in state SCAN ends: it completes, or the state
\* is left.  (Unless a command failed or the firmware was reset under it.)
ScanCompletes ==
  (ic_state = "SCAN" /\ f_scan = "set") ~>
    (ic_state # "SCAN" \/ f_scan = "clear" \/ failed = "yes" \/ orphan = "yes")
-----------------------------------------------------------------------------
(* Expectations of the code that it does not keep; see README.md *)

\* if_iwm.c:6271: the scan that is joined delivers its completion.
JoinHasCompletion == "SCANNING" \in sc_flags => fwscan = "yes"

\* if_iwm.c:7714: a fatal error leaves no scan dangling in net80211.
StopEndsScan ==
  ("STOPPED" \in sc_flags /\ nswq = <<>> /\ WorkerIdle) => f_scan = "clear"

\* ieee80211_proto.c:1067: ASSOC from INIT or SCAN is an invalid transition.
AssocAfterAuth == [][ic_state' = "ASSOC" => ic_state \in Joined]_vars
=============================================================================
