------------------------------ MODULE StaLink ------------------------------
(***************************************************************************)
(* The station's link: the supplicant driver ops (driver_net80211.c, on    *)
(* the eloop task), the net80211 state machine (ieee80211_newstate, run by *)
(* the urtwn command worker), the management frames of the access points   *)
(* (ieee80211_recv_mgmt_*, on the USB receive worker) and the scan callout *)
(* (urtwn_next_scan, on the timer task).                                   *)
(*                                                                         *)
(* ieee80211_new_state() does not change ic_state: urtwn_newstate() queues *)
(* a command and returns, so every decision taken from ic_state is taken   *)
(* against a state that commands already queued are about to change.       *)
(*                                                                         *)
(* The mode is the one the port uses: infrastructure station, manual       *)
(* roaming, open-system authentication.  The supplicant itself is outside  *)
(* the repository; it calls the driver ops in any order its own phase      *)
(* (sup) allows.  The command ring is the FIFO that UrtwnCmdq justifies.   *)
(***************************************************************************)
EXTENDS Naturals, Sequences

CONSTANTS
    BSS,        \* the access points in range
    Self,       \* ic_bss after ieee80211_reset_bss: a node of our own address
    NChans,     \* channels of a scan (ic_chan_active)
    QMax,       \* commands the ring holds: URTWN_HOST_CMD_RING_COUNT - 1
    EvMax,      \* events the ring holds: WPA_QUEUE_LEN - 1
    AirMax,     \* bound on the frames on their way
    MaxScans    \* bound on the scans requested from the shell

ASSUME BoundsAssumption ==
    /\ Self \notin BSS
    /\ NChans \in Nat \ {0} /\ QMax \in Nat \ {0} /\ EvMax \in Nat \ {0}
    /\ AirMax \in Nat /\ MaxScans \in Nat

VARIABLES
    ic_state,     \* "INIT", "SCAN", "AUTH", "ASSOC", "RUN"
    ic_bss,       \* the node the station is (to be) joined to
    ic_scan,      \* the scan table: the access points found
    chan_scan,    \* channels of ic_chan_scan still to visit
    scanning,     \* IEEE80211_F_SCAN
    mgt_timer,    \* ic_mgt_timer is "set" or "clear"
    hw,           \* what urtwn_newstate_cb set up: "pause" (TXPAUSE), "data" (RXFLTMAP2)
    scan_to,      \* the scan callout: "off" or "armed"
    firing,       \* urtwn_next_scan passed its test of ic_state: "no" or "yes"
    cmdq,         \* the command ring, its head being run
    ap,           \* each access point's view of us: "none", "auth", "assoc"
    air,          \* frames of the access points still on their way, oldest first
    scans,        \* scans requested from the shell so far
    associated,   \* drv->associated
    link,         \* what lwIP was told last: "up" or "down"
    scan_pending, \* drv->scan_pending
    poll,         \* freertos_scan_poll is registered with eloop
    events,       \* the supplicant's event ring
    sup,          \* phase of the supplicant: "idle", "scanning", "joining", "connected"
    sel,          \* the access point of the last successful associate
    lost          \* what went missing: a "cmd" or "event" at a full ring, the
                  \* "leave" of an association that a join replaced

ic == <<ic_state, ic_bss, ic_scan, chan_scan, scanning, mgt_timer, hw>>
aps == <<ap, air, scans>>
drv == <<associated, link, scan_pending, events>>
host == <<poll, sup, sel>>
vars == <<ic, aps, drv, host, scan_to, firing, cmdq, lost>>

States == {"INIT", "SCAN", "AUTH", "ASSOC", "RUN"}

\* Queued commands: new_state with its target and the argument that matters
\* ("SCAN0" is SCAN with arg 0, "JOIN" is AUTH with arg -1, "DEAUTH" is AUTH
\* with the deauth subtype), and wlan_scan_start.
Cmds == {"INIT", "SCAN", "SCAN0", "JOIN", "DEAUTH", "ASSOC", "RUN", "SCANREQ"}
Frames == {"auth", "auth_refused", "assoc", "assoc_refused", "assoc_norate",
           "deauth", "disassoc"}
Events == {"scan_results", "scan_aborted", "assoc", "disassoc", "eapol"}

TypeOK ==
    /\ ic_state \in States /\ ic_bss \in BSS \cup {Self} /\ ic_scan \subseteq BSS
    /\ chan_scan \in 0 .. NChans /\ scanning \in {"no", "yes"}
    /\ mgt_timer \in {"set", "clear"} /\ hw \subseteq {"pause", "data"}
    /\ scan_to \in {"off", "armed"} /\ firing \in {"no", "yes"}
    /\ cmdq \in Seq(Cmds) /\ Len(cmdq) <= QMax
    /\ ap \in [BSS -> {"none", "auth", "assoc"}]
    /\ air \in Seq(Frames \X BSS) /\ Len(air) <= AirMax /\ scans \in 0 .. MaxScans
    /\ associated \in {0, 1} /\ link \in {"up", "down"}
    /\ scan_pending \in {0, 1} /\ poll \in {"off", "on"}
    /\ events \in Seq(Events) /\ Len(events) <= EvMax
    /\ sup \in {"idle", "scanning", "joining", "connected"}
    /\ sel \in BSS \cup {Self}
    /\ lost \subseteq {"cmd", "event", "leave"}

Init ==
    /\ ic_state = "INIT" /\ ic_bss = Self /\ ic_scan = {} /\ chan_scan = 0
    /\ scanning = "no" /\ mgt_timer = "clear" /\ hw = {}
    /\ scan_to = "off" /\ firing = "no" /\ cmdq = <<>>
    /\ ap = [b \in BSS |-> "none"] /\ air = <<>> /\ scans = 0
    /\ associated = 0 /\ link = "down" /\ scan_pending = 0 /\ poll = "off"
    /\ events = <<>> /\ sup = "idle" /\ sel = Self /\ lost = {}

----------------------------------------------------------------------------
\* The two rings.

\* ieee80211_new_state -> urtwn_newstate -> urtwn_do_async: the callouts are
\* stopped and the command appended to q.  At a full ring it is lost, and
\* the ring with it (see Worker).
NewStateOn(q, c) ==
    /\ scan_to' = "off"
    /\ cmdq' = IF Len(cmdq) < QMax THEN Append(q, c) ELSE q

Dropped(cs, es) ==
    lost' = lost \cup (IF cs > 0 /\ Len(cmdq) + cs > QMax THEN {"cmd"} ELSE {})
                 \cup (IF es > 0 /\ Len(events) + es > EvMax THEN {"event"} ELSE {})

new_state(c) == NewStateOn(cmdq, c) /\ Dropped(1, 0)

\* wpa_send_event: a full ring drops the event.
SendEvent(e) ==
    events' = IF Len(events) < EvMax THEN Append(events, e) ELSE events

----------------------------------------------------------------------------
\* ieee80211_newstate under urtwn_newstate_cb, one action per target state.
\* Each runs the head of the ring; the slot is retired when the callback
\* returns.

\* ieee80211_sta_leave: the host is told that the association ended.
StaLeave ==
    /\ associated' = 0 /\ link' = "down" /\ SendEvent("disassoc")
    /\ Dropped(0, 1)
    /\ UNCHANGED scan_pending

Quiet == UNCHANGED drv /\ Dropped(0, 0)

\* Mutants: leaving is not reported; or only if the driver still says associated.
LeaveUnreported(cond) == Quiet
LeaveReportedOnce(cond) == IF cond /\ associated = 1 THEN StaLeave ELSE Quiet

LeaveIf(cond) == IF cond THEN StaLeave ELSE Quiet

\* Mutant: the transmit queues stay paused when a scan ends.
HwForPaused(nstate) ==
    IF nstate = "SCAN" THEN {"pause"} ELSE IF nstate = "RUN" THEN hw \cup {"data"} ELSE hw \ {"data"}

\* The hardware set up by urtwn_newstate_cb for a change to nstate.
HwFor(nstate) ==
    LET unpause == ic_state = "SCAN" /\ nstate # "SCAN"
        nodata  == ic_state = "RUN" \/ (nstate = "SCAN" /\ ic_state # "SCAN")
    IN  (hw \ ((IF unpause THEN {"pause"} ELSE {}) \cup (IF nodata THEN {"data"} ELSE {})))
          \cup {x \in {"pause", "data"} : nstate = IF x = "pause" THEN "SCAN" ELSE "RUN"}

AtHead(c) == cmdq # <<>> /\ cmdq[1] = c
Retire == cmdq' = Tail(cmdq) /\ scan_to' = "off"

\* External: access point b moves to st and answers with frame f, or is not
\* heard; its frames arrive in order.
Answer(b, st, f) ==
    /\ Len(air) < AirMax
    /\ ap' = [ap EXCEPT ![b] = st] /\ air' = Append(air, <<f, b>>)
    /\ UNCHANGED scans

\* ieee80211_send_mgmt of AUTH or ASSOC_REQ to ic_bss: ic_mgt_timer is set, the
\* request is answered or lost.
RequestAuth ==
    /\ mgt_timer' = "set"
    /\ \/ UNCHANGED aps
       \/ \E b \in BSS \cap {ic_bss} : Answer(b, "auth", "auth") \/ Answer(b, "none", "auth_refused")

RequestAssoc ==
    /\ mgt_timer' = "set"
    /\ \/ UNCHANGED aps
       \/ \E b \in BSS \cap {ic_bss} :
            IF ap[b] = "none"
              THEN Answer(b, "none", "deauth")
              ELSE \/ \E f \in {"assoc", "assoc_norate"} : Answer(b, "assoc", f)
                   \/ Answer(b, "auth", "assoc_refused")

\* ieee80211_send_mgmt of DISASSOC or DEAUTH, heard or not.
Farewell ==
    /\ ap' \in {ap} \cup {[ap EXCEPT ![b] = "none"] : b \in BSS \cap {ic_bss}}
    /\ UNCHANGED <<air, scans>>

\* wlan_scan_start runs the change to INIT, then the change to SCAN, in one
\* callback: the slot goes on with "SCAN".
NewstateInit ==
    /\ AtHead("INIT") \/ AtHead("SCANREQ")
    /\ ic_state' = "INIT" /\ hw' = HwFor("INIT")
    /\ IF ic_state = "INIT"
         THEN UNCHANGED <<ic_bss, ic_scan, scanning, mgt_timer>>
         ELSE /\ ic_bss' = Self /\ ic_scan' = {} /\ mgt_timer' = "clear"
              /\ scanning' = IF ic_state = "SCAN" THEN "no" ELSE scanning
    /\ LeaveIf(ic_state = "RUN")
    /\ IF ic_state \in {"ASSOC", "RUN"} THEN Farewell ELSE UNCHANGED aps
    /\ scan_to' = "off"
    /\ cmdq' = IF AtHead("INIT") THEN Tail(cmdq) ELSE <<"SCAN">> \o Tail(cmdq)
    /\ UNCHANGED <<chan_scan, host, firing>>

\* INIT -> SCAN begins a scan, whose first channel is another queued change.
BeginScan(c) ==
    /\ ic_state = "INIT"
    /\ scanning' = "yes" /\ chan_scan' = NChans - 1 /\ mgt_timer' = "clear"
    /\ ic_scan' = IF c = "SCAN" THEN {} ELSE ic_scan
    /\ NewStateOn(Tail(cmdq), "SCAN") /\ Dropped(1, 0)
    /\ UNCHANGED drv

\* The other changes to SCAN dwell on the channel: the callout is armed.
Dwell ==
    /\ ic_state # "INIT"
    /\ cmdq' = Tail(cmdq) /\ scan_to' = "armed"
    /\ LeaveIf(ic_state = "RUN")
    /\ UNCHANGED <<scanning, chan_scan, mgt_timer, ic_scan>>

NewstateScan(c) ==
    /\ c \in {"SCAN", "SCAN0"} /\ AtHead(c)
    /\ ic_state' = "SCAN" /\ hw' = HwFor("SCAN")
    /\ BeginScan(c) \/ Dwell
    /\ UNCHANGED <<ic_bss, host, firing, aps>>

NewstateAuth(c) ==
    /\ c \in {"JOIN", "DEAUTH"} /\ AtHead(c)
    /\ ic_state' = "AUTH" /\ hw' = HwFor("AUTH")
    /\ IF ic_state \in {"INIT", "SCAN"}
         THEN RequestAuth
         ELSE UNCHANGED <<mgt_timer, aps>>
    /\ IF ic_state = "RUN" /\ c = "JOIN"
         THEN UNCHANGED drv /\ lost' = lost \cup {"leave"}
         ELSE LeaveIf(ic_state = "RUN")
    /\ Retire
    /\ UNCHANGED <<ic_bss, ic_scan, chan_scan, scanning, host, firing>>

NewstateAssoc ==
    /\ AtHead("ASSOC")
    /\ ic_state' = "ASSOC" /\ hw' = HwFor("ASSOC")
    /\ IF ic_state = "AUTH" THEN RequestAssoc ELSE UNCHANGED <<mgt_timer, aps>>
    /\ LeaveIf(ic_state = "RUN")
    /\ Retire
    /\ UNCHANGED <<ic_bss, ic_scan, chan_scan, scanning, host, firing>>

\* Only ASSOC -> RUN (and SCAN -> RUN) reports the association.
NewstateRun ==
    /\ AtHead("RUN")
    /\ ic_state' = "RUN" /\ hw' = HwFor("RUN")
    /\ IF ic_state \in {"ASSOC", "SCAN"}
         THEN /\ mgt_timer' = "clear"
              /\ associated' = 1 /\ link' = "up" /\ SendEvent("assoc")
              /\ Dropped(0, 1) /\ UNCHANGED scan_pending
         ELSE UNCHANGED mgt_timer /\ Quiet
    /\ Retire
    /\ UNCHANGED <<ic_bss, ic_scan, chan_scan, scanning, host, firing, aps>>

\* urtwn_task runs the commands in order until the ring was full: a full ring
\* looks empty, and it runs nothing more (see UrtwnCmdq).  A ring that fills
\* during a callback survives one command more, as one with a larger QMax.
Worker ==
    /\ "cmd" \notin lost
    /\ \/ NewstateInit \/ NewstateAssoc \/ NewstateRun
       \/ \E c \in Cmds : NewstateScan(c) \/ NewstateAuth(c)

----------------------------------------------------------------------------
\* The scan callout (timer task).

\* urtwn_next_scan tests ic_state, then calls ieee80211_next_scan: a change of
\* state may fall between the two, and callout_stop does not stop the callback.
ScanFire ==
    /\ scan_to = "armed" /\ firing = "no"
    /\ scan_to' = "off"
    /\ firing' = IF ic_state = "SCAN" THEN "yes" ELSE "no"
    /\ UNCHANGED <<ic, aps, drv, host, cmdq, lost>>

\* ieee80211_end_scan reports the completion if the supplicant still waits
\* for it; under manual roaming it chooses nothing.
EndScan ==
    /\ chan_scan = 0
    /\ scanning' = "no" /\ scan_pending' = 0
    /\ IF scan_pending = 1
         THEN SendEvent("scan_results") /\ Dropped(0, 1)
         ELSE UNCHANGED events /\ Dropped(0, 0)
    /\ UNCHANGED <<associated, link, chan_scan, cmdq, scan_to>>

\* ieee80211_next_scan: the next channel, or the end of the scan.
NextScan ==
    /\ firing = "yes" /\ firing' = "no"
    /\ mgt_timer' = "clear"
    /\ \/ /\ chan_scan > 0 /\ chan_scan' = chan_scan - 1
          /\ new_state("SCAN")
          /\ UNCHANGED <<drv, scanning>>
       \/ EndScan
    /\ UNCHANGED <<ic_state, ic_bss, ic_scan, hw, aps, host>>

----------------------------------------------------------------------------
\* Received frames (USB receive worker).

\* ieee80211_input with ieee80211_find_rxnode: outside a scan only frames of
\* the joined access point or of one in the scan table pass.
Accepts(b) == scanning = "yes" \/ b \in ic_scan \/ b = ic_bss

\* A beacon or probe response enters the scan table during a scan.
RecvBeacon(b) ==
    /\ scanning = "yes" /\ b \notin ic_scan
    /\ ic_scan' = ic_scan \cup {b}
    /\ UNCHANGED <<ic_state, ic_bss, chan_scan, scanning, mgt_timer, hw>>
    /\ UNCHANGED <<aps, drv, host, scan_to, firing, cmdq, lost>>

\* Answers move the state machine on only in the state that waits for them:
\* the change each handler asks for, "none" when it ignores the frame.

\* ieee80211_auth_open as a station.
AuthOpen(f) ==
    IF ic_state # "AUTH" THEN "none" ELSE IF f = "auth" THEN "ASSOC" ELSE "SCAN0"

\* ieee80211_recv_mgmt_assoc_resp: a refusal is only counted, an association
\* without a common rate goes back to scanning.
AssocResp(f) ==
    IF ic_state # "ASSOC" \/ f = "assoc_refused"
      THEN "none"
      ELSE IF f = "assoc" THEN "RUN" ELSE "SCAN0"

\* ieee80211_recv_mgmt_deauth.
Deauth == IF ic_state # "SCAN" THEN "DEAUTH" ELSE "none"

\* ieee80211_recv_mgmt_disassoc.
Disassoc == IF ic_state \in {"RUN", "ASSOC", "AUTH"} THEN "ASSOC" ELSE "none"

Asks(f) ==
    CASE f \in {"auth", "auth_refused"} -> AuthOpen(f)
      [] f \in {"assoc", "assoc_refused", "assoc_norate"} -> AssocResp(f)
      [] f = "deauth" -> Deauth
      [] f = "disassoc" -> Disassoc

\* The oldest frame arrives, or is lost.
RecvMgmt ==
    /\ air # <<>> /\ air' = Tail(air)
    /\ \/ LET c == Asks(air[1][1]) IN
          Accepts(air[1][2]) /\ c # "none" /\ new_state(c)
       \/ UNCHANGED <<scan_to, cmdq, lost>>
    /\ UNCHANGED <<ic, ap, scans, drv, host, firing>>

\* External: an access point ends our association or authentication.
Kick(b) ==
    /\ \/ ap[b] = "assoc" /\ Answer(b, "auth", "disassoc")
       \/ ap[b] # "none" /\ Answer(b, "none", "deauth")
    /\ UNCHANGED <<ic, drv, host, scan_to, firing, cmdq, lost>>

\* An EAPOL frame of the joined access point is queued for the supplicant.
RecvEapol ==
    /\ ic_state = "RUN"
    /\ SendEvent("eapol") /\ Dropped(0, 1)
    /\ UNCHANGED <<ic, aps, associated, link, scan_pending, host, scan_to, firing, cmdq>>

----------------------------------------------------------------------------
\* The supplicant's driver ops (eloop task).

\* Mutant: the 30 s timeout is not registered.
Scan2Untimed ==
    /\ sup = "idle" /\ scan_pending = 0
    /\ scan_pending' = 1 /\ sup' = "scanning"
    /\ cmdq' = IF Len(cmdq) < QMax THEN Append(cmdq, "SCANREQ") ELSE cmdq
    /\ Dropped(1, 0)
    /\ UNCHANGED <<ic, aps, associated, link, events, poll, sel, scan_to, firing>>

\* freertos_scan2.  A request lost at a full command ring is not noticed.
Scan2 ==
    /\ sup = "idle" /\ scan_pending = 0
    /\ scan_pending' = 1 /\ poll' = "on" /\ sup' = "scanning"
    /\ cmdq' = IF Len(cmdq) < QMax THEN Append(cmdq, "SCANREQ") ELSE cmdq
    /\ Dropped(1, 0)
    /\ UNCHANGED <<ic, aps, associated, link, events, sel, scan_to, firing>>

\* "wlan scan" at the shell calls wlan_port_scan on its own account.
ShellScan ==
    /\ scans < MaxScans /\ scans' = scans + 1
    /\ cmdq' = IF Len(cmdq) < QMax THEN Append(cmdq, "SCANREQ") ELSE cmdq
    /\ Dropped(1, 0)
    /\ UNCHANGED <<ic, ap, air, drv, host, scan_to, firing>>

\* freertos_scan_poll, 30 s after the request.
ScanPoll ==
    /\ poll = "on" /\ poll' = "off"
    /\ scan_pending' = 0
    /\ IF scan_pending = 1
         THEN NewStateOn(cmdq, "INIT") /\ SendEvent("scan_aborted") /\ Dropped(1, 1)
         ELSE UNCHANGED <<events, scan_to, cmdq, lost>>
    /\ UNCHANGED <<ic, aps, associated, link, sup, sel, firing>>

\* freertos_associate: ieee80211_sta_join changes ic_bss at once and queues the
\* change to AUTH.
Associate(b) ==
    /\ sup = "idle" /\ b \in ic_scan
    /\ ic_bss' = b /\ sel' = b /\ sup' = "joining"
    /\ new_state("JOIN")
    /\ UNCHANGED <<ic_state, ic_scan, chan_scan, scanning, mgt_timer, hw>>
    /\ UNCHANGED <<aps, drv, poll, firing>>

\* freertos_deauthenticate: a user's disconnect, or the supplicant's own
\* authentication timeout.
Deauthenticate ==
    /\ sup \in {"joining", "connected"}
    /\ scan_pending' = 0 /\ poll' = "off" /\ associated' = 0 /\ sup' = "idle"
    /\ new_state("INIT")
    /\ UNCHANGED <<ic, aps, link, events, sel, firing>>

\* wpa_process_events hands the oldest event to the supplicant.
ProcessEvent ==
    /\ events # <<>> /\ events' = Tail(events)
    /\ LET e == events[1] IN
       sup' = CASE e \in {"scan_results", "scan_aborted"} /\ sup = "scanning" -> "idle"
                [] e = "assoc" /\ sup = "joining" -> "connected"
                [] e = "disassoc" /\ sup \in {"joining", "connected"} -> "idle"
                [] OTHER -> sup
    /\ UNCHANGED <<ic, aps, associated, link, scan_pending, poll, sel, scan_to, firing, cmdq, lost>>

Next ==
    \/ Worker
    \/ ScanFire \/ NextScan
    \/ \E b \in BSS : RecvBeacon(b) \/ Kick(b)
    \/ RecvMgmt \/ RecvEapol
    \/ Scan2 \/ ShellScan \/ ScanPoll \/ Deauthenticate \/ ProcessEvent
    \/ \E b \in BSS : Associate(b)

Spec == Init /\ [][Next]_vars

\* The command worker, the callouts and the eloop task keep running; access
\* points and the user owe nothing.
FairSpec ==
    /\ Spec
    /\ WF_vars(Worker)
    /\ WF_vars(ScanFire) /\ WF_vars(NextScan)
    /\ WF_vars(ScanPoll) /\ WF_vars(ProcessEvent)

----------------------------------------------------------------------------
\* drv->associated is 1 only in RUN: every way out of RUN goes through
\* ieee80211_sta_leave, although the requests that lead out of RUN were decided
\* against older states.  The exceptions are a command or event dropped at a
\* full ring, and a join that is run in RUN, which leaves without saying so.
AssociatedRuns == lost = {} /\ associated = 1 => ic_state = "RUN"

\* lwIP's link is up without drv->associated only while the change to INIT that
\* freertos_deauthenticate queued is still waiting: it will take the link down.
LinkDownQueued ==
    lost = {} /\ link = "up" /\ associated = 0 => \E i \in DOMAIN cmdq : cmdq[i] = "INIT"

\* What urtwn_newstate_cb leaves in the chip agrees with net80211's state: the
\* transmit queues are paused exactly while scanning, data frames are received
\* exactly in RUN.
HardwareInStep ==
    /\ "pause" \in hw <=> ic_state = "SCAN"
    /\ "data" \in hw <=> ic_state = "RUN"

\* With the types: every path through the callback leaves chip and stack so.
StationInv == TypeOK /\ HardwareInStep

\* While the supplicant waits for a scan, its report is on the way: queued, or
\* owed by a scan that is still pending under its 30 s timeout.  Completion
\* (timer task), timeout and a new request (eloop task) race for scan_pending.
ScanTracked ==
    sup = "scanning" /\ "event" \notin lost =>
        \/ scan_pending = 1 /\ poll = "on"
        \/ \E i \in DOMAIN events : events[i] \in {"scan_results", "scan_aborted"}

\* A scan the supplicant waits for is reported, completed or aborted, even if
\* the request or one of its channel changes was dropped at a full command
\* ring: the 30 s timeout is the backstop (unless the event itself is dropped).
ScanEnds == sup = "scanning" ~> (sup # "scanning" \/ "event" \in lost)

\* For model checking: what is followed after a loss.  AssociatedRuns and
\* LinkDownQueued say nothing once something is lost, ScanTracked and ScanEnds
\* only except a lost event.
LossBound == lost \subseteq {"cmd"} /\ (lost # {} => air = <<>>)

-----------------------------------------------------------------------------
(* What comments in the sources lead one to expect and the code does not   *)
(* keep: TLC finds a behaviour against each (see README).                  *)

\* The same without the exception, as the comment on freertos_scan_poll says.
ScanReported == sup = "scanning" ~> sup # "scanning"

\* IEEE80211_F_SCAN is set only while the state machine scans.
ScanFlagHonest == scanning = "yes" => ic_state = "SCAN"

\* The change to RUN is never "invalid": the association response that asked
\* for it was accepted in ASSOC, and it is run from there.
RunIsValid == AtHead("RUN") => ic_state \notin {"INIT", "AUTH"}

\* The change to AUTH that freertos_associate queued finds the access point the
\* supplicant selected.
JoinReachesSelected == AtHead("JOIN") /\ sup = "joining" /\ lost = {} => ic_bss = sel

\* ... and it is run in a state from which ieee80211_newstate sends the AUTH
\* request.
JoinSendsAuth == AtHead("JOIN") /\ sup = "joining" => ic_state \in {"INIT", "SCAN"}

\* A request without an answer times out (commands or events dropped at a full
\* ring aside).
RequestTimesOut == mgt_timer = "set" ~> (mgt_timer = "clear" \/ lost # {})

============================================================================
