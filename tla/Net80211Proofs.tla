--------------------------- MODULE Net80211Proofs --------------------------
(***************************************************************************)
(* Proofs about the station side of net80211.                              *)
(*                                                                         *)
(* StaLink: what the host, the chip and the supplicant may believe of the  *)
(* link, for any number of access points and channels and any length of    *)
(* the two rings.                                                          *)
(*                                                                         *)
(* RxReassembly: what is passed up of the frames of a peer, for any size   *)
(* of the sequence and fragment numbers, any fragmentation threshold and   *)
(* any number and length of frames the numbers allow.                      *)
(***************************************************************************)
EXTENDS StaLink, RxReassembly, TLAPS

-----------------------------------------------------------------------------
(* StaLink: the invariant *)

\* The link is up only in RUN, and whoever is associated has it up: every
\* way out of RUN takes both down, or is recorded as lost.
UpInRun ==
    lost = {} => /\ associated = 1 => link = "up"
                 /\ link = "up" => ic_state = "RUN"

\* The types, by who changes them.
IcType ==
    /\ ic_state \in States /\ ic_bss \in BSS \cup {Self} /\ ic_scan \subseteq BSS
    /\ chan_scan \in 0 .. NChans /\ scanning \in {"no", "yes"}
    /\ mgt_timer \in {"set", "clear"} /\ hw \subseteq {"pause", "data"}
QueueType ==
    /\ scan_to \in {"off", "armed"} /\ firing \in {"no", "yes"}
    /\ cmdq \in Seq(Cmds) /\ Len(cmdq) <= QMax
ApType ==
    /\ ap \in [BSS -> {"none", "auth", "assoc"}]
    /\ air \in Seq(Frames \X BSS) /\ Len(air) <= AirMax /\ scans \in 0 .. MaxScans
DrvType ==
    /\ associated \in {0, 1} /\ link \in {"up", "down"} /\ scan_pending \in {0, 1}
    /\ events \in Seq(Events) /\ Len(events) <= EvMax
HostType ==
    /\ poll \in {"off", "on"} /\ sup \in {"idle", "scanning", "joining", "connected"}
    /\ sel \in BSS \cup {Self} /\ lost \subseteq {"cmd", "event", "leave"}

Types == IcType /\ QueueType /\ ApType /\ DrvType /\ HostType

StaInv == Types /\ HardwareInStep /\ UpInRun /\ LinkDownQueued /\ ScanTracked

-----------------------------------------------------------------------------
(* The rings *)

\* urtwn_do_async keeps the command ring within its bound.
LEMMA RingBound ==
  ASSUME QueueType, NEW q \in Seq(Cmds), Len(q) <= Len(cmdq), NEW c \in Cmds,
         NewStateOn(q, c)
  PROVE  /\ scan_to' \in {"off", "armed"}
         /\ cmdq' \in Seq(Cmds) /\ Len(cmdq') <= QMax
  BY BoundsAssumption DEF QueueType, NewStateOn

\* So does wpa_send_event with the event ring.
LEMMA EventBound ==
  ASSUME DrvType, NEW e \in Events, SendEvent(e)
  PROVE  events' \in Seq(Events) /\ Len(events') <= EvMax
  BY BoundsAssumption DEF DrvType, SendEvent

\* Nothing that was lost is forgotten.
LEMMA LostGrows ==
  ASSUME HostType, NEW cs, NEW es, Dropped(cs, es)
  PROVE  lost \subseteq lost' /\ lost' \subseteq {"cmd", "event", "leave"}
  BY DEF HostType, Dropped

\* ieee80211_sta_leave, or not.
LEMMA LeaveTypes ==
  ASSUME DrvType, HostType, NEW cond, LeaveIf(cond)
  PROVE  DrvType' /\ lost' \subseteq {"cmd", "event", "leave"}
<1>1. CASE StaLeave
  BY <1>1, EventBound, LostGrows DEF StaLeave, DrvType, HostType, Events
<1>2. CASE Quiet
  BY <1>2, LostGrows DEF Quiet, drv, DrvType, HostType
<1>3. QED
  BY <1>1, <1>2 DEF LeaveIf

\* The access points' side of a request.
LEMMA AnswerTypes ==
  ASSUME ApType, NEW b \in BSS, NEW st \in {"none", "auth", "assoc"}, NEW f \in Frames,
         Answer(b, st, f)
  PROVE  ApType'
  BY BoundsAssumption DEF ApType, Answer

\* AUTH and ASSOC_REQ leave the access points in one of their states.
LEMMA RequestTypes ==
  ASSUME ApType, RequestAuth \/ RequestAssoc
  PROVE  ApType' /\ mgt_timer' \in {"set", "clear"}
<1>1. CASE UNCHANGED aps
  BY <1>1 DEF ApType, aps, RequestAuth, RequestAssoc
<1>2. CASE \E b \in BSS, st \in {"none", "auth", "assoc"}, f \in Frames : Answer(b, st, f)
  BY <1>2, AnswerTypes DEF RequestAuth, RequestAssoc
<1>3. QED
  BY <1>1, <1>2 DEF RequestAuth, RequestAssoc, Frames

\* So do DISASSOC and DEAUTH.
LEMMA FarewellTypes ==
  ASSUME ApType, Farewell
  PROVE  ApType'
  BY DEF ApType, Farewell

\* urtwn_newstate_cb sets no other bits of the chip.
LEMMA HwTypes ==
  ASSUME IcType, NEW n
  PROVE  HwFor(n) \subseteq {"pause", "data"}
  BY Zenon DEF HwFor, IcType

-----------------------------------------------------------------------------
(* The types *)

\* The types hold at start.
LEMMA TypesInit == Init => Types
  BY BoundsAssumption
  DEF Init, Types, IcType, QueueType, ApType, DrvType, HostType, States

\* The command worker.
LEMMA TypesWorker == Types /\ Worker => Types'
<1> SUFFICES ASSUME Types, Worker PROVE Types'
  OBVIOUS
<1> USE BoundsAssumption DEF Types
<1>0. /\ cmdq # <<>> => Tail(cmdq) \in Seq(Cmds) /\ Len(Tail(cmdq)) = Len(cmdq) - 1
      /\ \A n : HwFor(n) \subseteq {"pause", "data"}
  BY HwTypes DEF QueueType
<1>1. CASE NewstateInit
  <2>1. IcType'
    BY <1>0, <1>1 DEF NewstateInit, IcType, States
  <2>2. QueueType'
    <3>1. cmdq # <<>>
      BY <1>1 DEF NewstateInit, AtHead
    <3>2. /\ <<"SCAN">> \o Tail(cmdq) \in Seq(Cmds)
          /\ Len(<<"SCAN">> \o Tail(cmdq)) = 1 + Len(Tail(cmdq))
      <4>1. <<"SCAN">> \in Seq(Cmds) /\ Len(<<"SCAN">>) = 1
        BY DEF Cmds
      <4>2. QED
        BY <1>0, <3>1, <4>1
    <3>3. /\ cmdq' = Tail(cmdq) \/ cmdq' = <<"SCAN">> \o Tail(cmdq)
          /\ scan_to' = "off" /\ firing' = firing
      BY <1>1 DEF NewstateInit
    <3>4. /\ cmdq \in Seq(Cmds) /\ Len(cmdq) <= QMax
          /\ firing \in {"no", "yes"}
      BY DEF QueueType
    <3>5. /\ Tail(cmdq) \in Seq(Cmds) /\ Len(Tail(cmdq)) <= QMax
          /\ Len(<<"SCAN">> \o Tail(cmdq)) <= QMax
      BY <1>0, <3>1, <3>2, <3>4, SMTT(30)
    <3>6. cmdq' \in Seq(Cmds) /\ Len(cmdq') <= QMax
      BY <3>2, <3>3, <3>5, Zenon
    <3>7. QED
      BY <3>3, <3>4, <3>6 DEF QueueType
  <2>3. ApType'
    BY <1>1, FarewellTypes DEF NewstateInit, ApType, aps
  <2>4. DrvType' /\ HostType'
    BY <1>1, LeaveTypes DEF NewstateInit, HostType, host
  <2>5. QED
    BY <2>1, <2>2, <2>3, <2>4
<1>2. ASSUME NEW c \in Cmds, NewstateScan(c) PROVE Types'
  <2>1. CASE BeginScan(c)
    <3>1. IcType'
      BY <1>0, <1>2, <2>1 DEF NewstateScan, BeginScan, IcType, States
    <3>2. QueueType'
      <4>1. /\ Tail(cmdq) \in Seq(Cmds) /\ Len(Tail(cmdq)) <= Len(cmdq)
            /\ NewStateOn(Tail(cmdq), "SCAN") /\ firing' = firing
        BY <1>0, <1>2, <2>1 DEF NewstateScan, BeginScan, QueueType, AtHead
      <4>2. "SCAN" \in Cmds
        BY DEF Cmds
      <4>3. scan_to' \in {"off", "armed"} /\ cmdq' \in Seq(Cmds) /\ Len(cmdq') <= QMax
        BY <4>1, <4>2, RingBound, Zenon
      <4>4. QED
        BY <4>1, <4>3 DEF QueueType
    <3>3. ApType' /\ DrvType' /\ HostType'
      BY <1>2, <2>1, LostGrows
      DEF NewstateScan, BeginScan, ApType, aps, DrvType, drv, HostType, host
    <3>4. QED
      BY <3>1, <3>2, <3>3
  <2>2. CASE Dwell
    <3>1. IcType' /\ QueueType' /\ ApType'
      BY <1>0, <1>2, <2>2 DEF NewstateScan, Dwell, IcType, States, QueueType, AtHead, ApType, aps
    <3>2. DrvType' /\ HostType'
      BY <1>2, <2>2, LeaveTypes DEF NewstateScan, Dwell, HostType, host
    <3>3. QED
      BY <3>1, <3>2
  <2>3. QED
    BY <1>2, <2>1, <2>2 DEF NewstateScan
<1>3. ASSUME NEW c \in Cmds, NewstateAuth(c) PROVE Types'
  <2>1. ApType' /\ mgt_timer' \in {"set", "clear"}
    BY <1>3, RequestTypes DEF NewstateAuth, ApType, aps, IcType
  <2>2. IcType' /\ QueueType'
    BY <1>0, <1>3, <2>1 DEF NewstateAuth, Retire, IcType, States, QueueType, AtHead
  <2>3. DrvType' /\ HostType'
    BY <1>3, LeaveTypes, Zenon DEF NewstateAuth, DrvType, drv, HostType, host
  <2>4. QED
    BY <2>1, <2>2, <2>3
<1>4. CASE NewstateAssoc
  <2>1. ApType' /\ mgt_timer' \in {"set", "clear"}
    BY <1>4, RequestTypes DEF NewstateAssoc, ApType, aps, IcType
  <2>2. IcType' /\ QueueType'
    BY <1>0, <1>4, <2>1 DEF NewstateAssoc, Retire, IcType, States, QueueType, AtHead
  <2>3. DrvType' /\ HostType'
    BY <1>4, LeaveTypes DEF NewstateAssoc, HostType, host
  <2>4. QED
    BY <2>1, <2>2, <2>3
<1>5. CASE NewstateRun
  <2>1. IcType' /\ QueueType' /\ ApType'
    BY <1>0, <1>5
    DEF NewstateRun, Retire, IcType, States, QueueType, AtHead, ApType, aps
  <2>2. DrvType' /\ HostType'
    <3>1. CASE ic_state \in {"ASSOC", "SCAN"}
      BY <1>5, <3>1, EventBound, LostGrows DEF NewstateRun, DrvType, Events, HostType, host
    <3>2. CASE ic_state \notin {"ASSOC", "SCAN"}
      BY <1>5, <3>2, LostGrows DEF NewstateRun, Quiet, DrvType, drv, HostType, host
    <3>3. QED
      BY <3>1, <3>2
  <2>3. QED
    BY <2>1, <2>2
<1>6. QED
  BY <1>1, <1>2, <1>3, <1>4, <1>5 DEF Worker

\* The callout, the receive worker and the access points.
LEMMA TypesAir ==
  Types /\ (ScanFire \/ NextScan \/ RecvMgmt \/ RecvEapol
              \/ \E b \in BSS : RecvBeacon(b) \/ Kick(b)) => Types'
<1> SUFFICES ASSUME Types,
                    ScanFire \/ NextScan \/ RecvMgmt \/ RecvEapol
                      \/ \E b \in BSS : RecvBeacon(b) \/ Kick(b)
             PROVE  Types'
  BY SMTT(30)
<1> USE BoundsAssumption DEF Types
<1>1. CASE ScanFire
  BY <1>1, SMTT(30) DEF ScanFire, ic, aps, drv, host, IcType, QueueType, ApType, DrvType, HostType
<1>2. CASE NextScan
  <2>1. CASE EndScan
    <3>1. IcType' /\ QueueType' /\ ApType'
      BY <1>2, <2>1, SMTT(30) DEF NextScan, EndScan, aps, IcType, QueueType, ApType
    <3>2. DrvType' /\ HostType'
      BY <1>2, <2>1, EventBound, LostGrows
      DEF NextScan, EndScan, host, DrvType, HostType, Events
    <3>3. QED
      BY <3>1, <3>2, SMTT(30)
  <2>2. CASE /\ chan_scan > 0 /\ chan_scan' = chan_scan - 1
             /\ new_state("SCAN") /\ UNCHANGED <<drv, scanning>>
    <3>1. cmdq \in Seq(Cmds) /\ Len(cmdq) <= Len(cmdq) /\ "SCAN" \in Cmds
      BY DEF QueueType, Cmds
    <3>2. QueueType' /\ lost' \subseteq {"cmd", "event", "leave"}
      BY <1>2, <2>2, <3>1, RingBound, LostGrows, SMTT(30) DEF NextScan, new_state, QueueType
    <3>3. IcType' /\ ApType' /\ DrvType' /\ HostType'
      BY <1>2, <2>2, <3>2, SMTT(30) DEF NextScan, aps, drv, host, IcType, ApType, DrvType, HostType
    <3>4. QED
      BY <3>2, <3>3
  <2>3. QED
    BY <1>2, <2>1, <2>2 DEF NextScan
<1>3. CASE RecvMgmt
  <2>1. Tail(air) \in Seq(Frames \X BSS) /\ Len(Tail(air)) <= AirMax
    BY <1>3, SMTT(30) DEF RecvMgmt, ApType
  <2>2. Asks(air[1][1]) # "none" => Asks(air[1][1]) \in Cmds
    BY <1>3, SMTT(30) DEF RecvMgmt, ApType, Asks, AuthOpen, AssocResp, Deauth, Disassoc, Cmds, Frames
  <2>3. QueueType' /\ lost' \subseteq {"cmd", "event", "leave"}
    <3>1. CASE UNCHANGED <<scan_to, cmdq, lost>>
      BY <1>3, <3>1, SMTT(30) DEF RecvMgmt, QueueType, HostType
    <3>2. CASE Asks(air[1][1]) # "none" /\ new_state(Asks(air[1][1]))
      <4>1. cmdq \in Seq(Cmds) /\ Len(cmdq) <= Len(cmdq)
        BY DEF QueueType
      <4>2. QED
        BY <1>3, <2>2, <3>2, <4>1, RingBound, LostGrows, SMTT(30) DEF RecvMgmt, new_state, QueueType
    <3>3. QED
      BY <1>3, <3>1, <3>2 DEF RecvMgmt
  <2>4. IcType' /\ ApType' /\ DrvType' /\ HostType'
    BY <1>3, <2>1, <2>3, SMTT(30) DEF RecvMgmt, ic, drv, host, IcType, ApType, DrvType, HostType
  <2>5. QED
    BY <2>3, <2>4
<1>4. CASE RecvEapol
  <2>1. DrvType' /\ lost' \subseteq {"cmd", "event", "leave"}
    BY <1>4, EventBound, LostGrows, SMTT(30) DEF RecvEapol, DrvType, Events
  <2>2. QED
    BY <1>4, <2>1 DEF RecvEapol, ic, aps, host, IcType, QueueType, ApType, HostType
<1>5. ASSUME NEW b \in BSS, RecvBeacon(b) PROVE Types'
  BY <1>5, SMTT(30) DEF RecvBeacon, aps, drv, host, IcType, QueueType, ApType, DrvType, HostType
<1>6. ASSUME NEW b \in BSS, Kick(b) PROVE Types'
  <2>1. ApType'
    BY <1>6, AnswerTypes, SMTT(30) DEF Kick, Frames
  <2>2. QED
    BY <1>6, <2>1 DEF Kick, ic, drv, host, IcType, QueueType, DrvType, HostType
<1>7. QED
  BY <1>1, <1>2, <1>3, <1>4, <1>5, <1>6


\* The supplicant's driver ops.
LEMMA TypesOps ==
  Types /\ (Scan2 \/ ShellScan \/ ScanPoll \/ Deauthenticate \/ ProcessEvent
              \/ \E b \in BSS : Associate(b)) => Types'
<1> SUFFICES ASSUME Types,
                    Scan2 \/ ShellScan \/ ScanPoll \/ Deauthenticate \/ ProcessEvent
                      \/ \E b \in BSS : Associate(b)
             PROVE  Types'
  OBVIOUS
<1> USE BoundsAssumption DEF Types
<1>0. /\ cmdq \in Seq(Cmds) /\ Len(cmdq) <= Len(cmdq)
      /\ {"SCANREQ", "INIT", "JOIN"} \subseteq Cmds
  BY DEF QueueType, Cmds
<1>1. CASE Scan2
  <2>1. QueueType' /\ lost' \subseteq {"cmd", "event", "leave"}
    BY <1>0, <1>1, LostGrows, SMTT(30) DEF Scan2, QueueType
  <2>2. IcType' /\ ApType' /\ DrvType' /\ HostType'
    BY <1>1, <2>1, SMTT(30) DEF Scan2, ic, aps, IcType, ApType, DrvType, HostType
  <2>3. QED
    BY <2>1, <2>2, SMTT(30)
<1>2. CASE ShellScan
  <2>1. QueueType' /\ lost' \subseteq {"cmd", "event", "leave"}
    BY <1>0, <1>2, LostGrows, SMTT(30) DEF ShellScan, QueueType
  <2>2. IcType' /\ ApType' /\ DrvType' /\ HostType'
    BY <1>2, <2>1, SMTT(30) DEF ShellScan, ic, drv, host, IcType, ApType, DrvType, HostType
  <2>3. QED
    BY <2>1, <2>2
<1>3. CASE ScanPoll
  <2>1. QueueType' /\ lost' \subseteq {"cmd", "event", "leave"}
    <3>1. CASE scan_pending = 1
      BY <1>0, <1>3, <3>1, RingBound, LostGrows DEF ScanPoll, QueueType
    <3>2. CASE scan_pending # 1
      BY <1>3, <3>2, Zenon DEF ScanPoll, QueueType, HostType
    <3>3. QED
      BY <3>1, <3>2, SMTT(30)
  <2>2. events' \in Seq(Events) /\ Len(events') <= EvMax
    <3>1. CASE scan_pending = 1
      BY <1>3, <3>1, EventBound, SMTT(30) DEF ScanPoll, Events
    <3>2. CASE scan_pending # 1
      BY <1>3, <3>2, SMTT(30) DEF ScanPoll, DrvType
    <3>3. QED
      BY <3>1, <3>2, SMTT(30)
  <2>3. IcType' /\ ApType' /\ DrvType' /\ HostType'
    BY <1>3, <2>1, <2>2, SMTT(30) DEF ScanPoll, ic, aps, IcType, ApType, DrvType, HostType
  <2>4. QED
    BY <2>1, <2>3
<1>4. CASE Deauthenticate
  <2>1. QueueType' /\ lost' \subseteq {"cmd", "event", "leave"}
    BY <1>0, <1>4, RingBound, LostGrows, SMTT(30) DEF Deauthenticate, new_state, QueueType
  <2>2. IcType' /\ ApType' /\ DrvType' /\ HostType'
    BY <1>4, <2>1 DEF Deauthenticate, ic, aps, IcType, ApType, DrvType, HostType
  <2>3. QED
    BY <2>1, <2>2
<1>5. CASE ProcessEvent
  <2>1. events' \in Seq(Events) /\ Len(events') <= EvMax
    BY <1>5 DEF ProcessEvent, DrvType
  <2>2. sup' \in {"idle", "connected", sup}
    BY <1>5 DEF ProcessEvent
  <2>3. QED
    BY <1>5, <2>1, <2>2
    DEF ProcessEvent, ic, aps, IcType, QueueType, ApType, DrvType, HostType
<1>6. ASSUME NEW b \in BSS, Associate(b) PROVE Types'
  <2>1. QueueType' /\ lost' \subseteq {"cmd", "event", "leave"}
    BY <1>0, <1>6, RingBound, LostGrows, SMTT(30) DEF Associate, new_state, QueueType
  <2>2. IcType' /\ ApType' /\ DrvType' /\ HostType'
    BY <1>6, <2>1 DEF Associate, aps, drv, IcType, ApType, DrvType, HostType
  <2>3. QED
    BY <2>1, <2>2, SMTT(30)
<1>7. QED
  BY <1>1, <1>2, <1>3, <1>4, <1>5, <1>6


-----------------------------------------------------------------------------
(* What stays in a ring *)

\* A change to INIT, or a report of a scan, is somewhere in the ring.
Holds(q, xs) == \E i \in DOMAIN q : q[i] \in xs

\* Appending removes nothing and adds the new element.
LEMMA AppendHolds ==
  ASSUME NEW S, NEW q \in Seq(S), NEW x \in S, NEW xs, Holds(q, xs) \/ x \in xs
  PROVE  Holds(Append(q, x), xs)
<1> DEFINE r == Append(q, x)
<1>1. /\ DOMAIN r = 1 .. (Len(q) + 1) /\ r[Len(q) + 1] = x
      /\ \A i \in 1 .. Len(q) : r[i] = q[i]
      /\ DOMAIN q = 1 .. Len(q) /\ Len(q) \in Nat
  OBVIOUS
<1>2. CASE x \in xs
  BY <1>1, <1>2 DEF Holds
<1>3. CASE Holds(q, xs)
  BY <1>1, <1>3 DEF Holds
<1>4. QED
  BY <1>2, <1>3

\* Taking the head removes nothing else.
LEMMA TailHolds ==
  ASSUME NEW S, NEW q \in Seq(S), NEW xs, Holds(q, xs), q # <<>>, q[1] \notin xs
  PROVE  Holds(Tail(q), xs)
<1>1. /\ DOMAIN Tail(q) = 1 .. (Len(q) - 1) /\ DOMAIN q = 1 .. Len(q) /\ Len(q) \in Nat
      /\ \A i \in 1 .. (Len(q) - 1) : Tail(q)[i] = q[i + 1]
  OBVIOUS
<1>2. PICK i \in DOMAIN q : q[i] \in xs
  BY DEF Holds
<1>3. i - 1 \in 1 .. (Len(q) - 1) /\ Tail(q)[i - 1] = q[i]
  BY <1>1, <1>2
<1>4. QED
  BY <1>1, <1>2, <1>3 DEF Holds

\* A request keeps what is queued, and is queued itself unless it is lost.
LEMMA RingHolds ==
  ASSUME QueueType, NEW c \in Cmds, NewStateOn(cmdq, c), NEW xs
  PROVE  /\ Holds(cmdq, xs) => Holds(cmdq', xs)
         /\ c \in xs /\ Len(cmdq) < QMax => Holds(cmdq', xs)
  BY AppendHolds DEF NewStateOn, QueueType

\* So does an event.
LEMMA EventHolds ==
  ASSUME DrvType, NEW e \in Events, SendEvent(e), NEW xs
  PROVE  /\ Holds(events, xs) => Holds(events', xs)
         /\ e \in xs /\ Len(events) < EvMax => Holds(events', xs)
  BY AppendHolds DEF SendEvent, DrvType

\* Nothing was lost in a step after which nothing is lost.
LEMMA RoomLeft ==
  ASSUME QueueType, DrvType, NEW cs \in {0, 1}, NEW es \in {0, 1}, Dropped(cs, es)
  PROVE  /\ lost' = {} => lost = {}
         /\ "cmd" \notin lost' /\ cs = 1 => Len(cmdq) < QMax
         /\ "event" \notin lost' => "event" \notin lost
         /\ "event" \notin lost' /\ es = 1 => Len(events) < EvMax
<1>1. QMax \in Nat /\ EvMax \in Nat /\ Len(cmdq) \in Nat /\ Len(events) \in Nat
  BY BoundsAssumption DEF QueueType, DrvType
<1>2. QED
  BY <1>1 DEF Dropped

-----------------------------------------------------------------------------
(* Chip and stack *)

\* urtwn_newstate_cb sets the chip up for the state it changes to.
LEMMA HwFollows ==
  ASSUME IcType, HardwareInStep, NEW n \in States, ic_state' = n, hw' = HwFor(n)
  PROVE  HardwareInStep'
  BY SMTT(30) DEF IcType, HardwareInStep, HwFor, States

\* No one else changes either.
LEMMA HwStep == Types /\ HardwareInStep /\ [Next]_vars => HardwareInStep'
<1> SUFFICES ASSUME Types, HardwareInStep, [Next]_vars PROVE HardwareInStep'
  OBVIOUS
<1>1. CASE Worker
  <2>1. PICK n \in States : ic_state' = n /\ hw' = HwFor(n)
    BY <1>1 DEF Worker, NewstateInit, NewstateScan, NewstateAuth, NewstateAssoc,
                NewstateRun, States
  <2>2. QED
    BY <2>1, HwFollows, SMTT(30) DEF Types
<1>2. CASE UNCHANGED <<ic_state, hw>>
  BY <1>2 DEF HardwareInStep
<1>3. QED
  BY <1>1, <1>2
  DEF Next, vars, ic, ScanFire, NextScan, RecvBeacon, Kick, RecvMgmt, RecvEapol, Scan2,
      ShellScan, ScanPoll, Deauthenticate, ProcessEvent, Associate

-----------------------------------------------------------------------------
(* The link *)

\* The two facts about the link that hold together.
LinkInv == UpInRun /\ LinkDownQueued

\* Leaving RUN: the link goes down.
LEMMA LeaveLink ==
  ASSUME Types, LinkInv, LeaveIf(ic_state = "RUN"), lost' = {}
  PROVE  lost = {} /\ link' = "down" /\ associated' = 0
<1>1. CASE ic_state = "RUN"
  BY <1>1, RoomLeft DEF LeaveIf, StaLeave, Types
<1>2. CASE ic_state # "RUN"
  <2>1. lost = {} /\ UNCHANGED drv
    BY <1>2, RoomLeft, SMTT(30) DEF LeaveIf, Quiet, Types
  <2>2. QED
    BY <1>2, <2>1 DEF LinkInv, UpInRun, drv, Types, DrvType
<1>3. QED
  BY <1>1, <1>2

\* The command worker.
LEMMA LinkWorker == Types /\ LinkInv /\ Worker => LinkInv'
<1> SUFFICES ASSUME Types, LinkInv, Worker, lost' = {}
             PROVE  /\ associated' = 1 => link' = "up"
                    /\ link' = "up" => ic_state' = "RUN"
                    /\ link' = "up" /\ associated' = 0 => Holds(cmdq', {"INIT"})
  BY SMTT(30) DEF LinkInv, UpInRun, LinkDownQueued, Holds
<1>1. CASE NewstateInit \/ NewstateAssoc
  BY <1>1, LeaveLink DEF NewstateInit, NewstateAssoc
<1>2. ASSUME NEW c \in Cmds, NewstateScan(c)
      PROVE  link' = "down" /\ associated' = 0
  <2>1. CASE BeginScan(c)
    <3>1. lost = {} /\ UNCHANGED drv /\ ic_state = "INIT"
      BY <2>1, RoomLeft DEF BeginScan, Types
    <3>2. QED
      BY <3>1 DEF LinkInv, UpInRun, drv, Types, DrvType
  <2>2. CASE Dwell
    BY <2>2, LeaveLink DEF Dwell
  <2>3. QED
    BY <1>2, <2>1, <2>2 DEF NewstateScan
<1>3. ASSUME NEW c \in Cmds, NewstateAuth(c)
      PROVE  link' = "down" /\ associated' = 0
  BY <1>3, LeaveLink DEF NewstateAuth
<1>4. CASE NewstateRun
  <2>1. CASE ic_state \in {"ASSOC", "SCAN"}
    BY <1>4, <2>1 DEF NewstateRun
  <2>2. CASE ic_state \notin {"ASSOC", "SCAN"}
    <3>1. lost = {} /\ UNCHANGED drv /\ ic_state' = "RUN"
      BY <1>4, <2>2, RoomLeft DEF NewstateRun, Quiet, Types
    <3>2. cmdq # <<>> /\ cmdq[1] = "RUN" /\ cmdq' = Tail(cmdq)
      BY <1>4 DEF NewstateRun, AtHead, Retire
    <3>3. Holds(cmdq, {"INIT"}) => Holds(cmdq', {"INIT"})
      BY <3>2, TailHolds DEF Types, QueueType
    <3>4. QED
      BY <3>1, <3>3 DEF LinkInv, UpInRun, LinkDownQueued, Holds, drv
  <2>3. QED
    BY <2>1, <2>2
<1>5. QED
  BY <1>1, <1>2, <1>3, <1>4, LeaveLink, SMTT(30) DEF Worker, NewstateInit, NewstateAssoc


\* Nobody but the worker changes the state, drv->associated or the link, save
\* freertos_deauthenticate, and no loss is ever forgotten.
LEMMA OthersKeep ==
  ASSUME [Next]_vars, ~Worker
  PROVE  /\ UNCHANGED <<ic_state, associated, link>> \/ Deauthenticate
         /\ lost \subseteq lost'
<1> DEFINE Keep == UNCHANGED <<ic_state, associated, link>>
           More == lost \subseteq lost'
<1>1. ASSUME NEW cs, NEW es, Dropped(cs, es) PROVE More
  BY <1>1 DEF Dropped
<1>2. CASE ScanFire \/ NextScan
  <2>1. Keep
    BY <1>2, SMTT(30) DEF ScanFire, NextScan, EndScan, ic, drv
  <2>2. More
    BY <1>1, <1>2, SMTT(30) DEF ScanFire, NextScan, EndScan, new_state
  <2> QED BY <2>1, <2>2, SMTT(30)
<1>3. CASE RecvMgmt \/ RecvEapol \/ \E b \in BSS : RecvBeacon(b) \/ Kick(b)
  <2>1. Keep
    BY <1>3 DEF RecvMgmt, RecvEapol, RecvBeacon, Kick, ic, drv
  <2>2. More
    BY <1>1, <1>3, Zenon DEF RecvMgmt, RecvEapol, RecvBeacon, Kick, new_state
  <2> QED BY <2>1, <2>2
<1>4. CASE Scan2 \/ ShellScan \/ ScanPoll \/ ProcessEvent
  <2>1. Keep
    BY <1>4 DEF Scan2, ShellScan, ScanPoll, ProcessEvent, ic, drv
  <2>2. More
    BY <1>1, <1>4 DEF Scan2, ShellScan, ScanPoll, ProcessEvent
  <2> QED BY <2>1, <2>2
<1>5. CASE \E b \in BSS : Associate(b)
  <2>1. Keep
    BY <1>5 DEF Associate, drv
  <2>2. More
    BY <1>1, <1>5 DEF Associate, new_state
  <2> QED BY <2>1, <2>2
<1>6. CASE Deauthenticate
  BY <1>1, <1>6 DEF Deauthenticate, new_state
<1>7. CASE UNCHANGED vars
  BY <1>7 DEF vars, ic, drv
<1> HIDE DEF Keep, More
<1> QED BY <1>2, <1>3, <1>4, <1>5, <1>6, <1>7 DEF Next


\* Everyone else only queues commands, except freertos_deauthenticate, which
\* clears drv->associated after it queued the change to INIT.
LEMMA LinkStep == Types /\ LinkInv /\ [Next]_vars => LinkInv'
<1> SUFFICES ASSUME Types, LinkInv, [Next]_vars, ~Worker, lost' = {}
             PROVE  /\ associated' = 1 => link' = "up"
                    /\ link' = "up" => ic_state' = "RUN"
                    /\ link' = "up" /\ associated' = 0 => Holds(cmdq', {"INIT"})
  BY LinkWorker DEF LinkInv, UpInRun, LinkDownQueued, Holds
<1>1. CASE Deauthenticate
  <2>1. lost = {} /\ Len(cmdq) < QMax
    BY <1>1, RoomLeft DEF Deauthenticate, new_state, Types
  <2>2. "INIT" \in Cmds /\ NewStateOn(cmdq, "INIT")
    BY <1>1 DEF Deauthenticate, new_state, Cmds
  <2>3. Holds(cmdq', {"INIT"})
    BY <2>1, <2>2, RingHolds DEF Types
  <2>4. QED
    BY <1>1, <2>1, <2>3 DEF Deauthenticate, ic, LinkInv, UpInRun
<1>2. CASE /\ UNCHANGED <<ic_state, associated, link>> /\ lost = {}
           /\ Holds(cmdq, {"INIT"}) => Holds(cmdq', {"INIT"})
  BY <1>2, SMTT(30) DEF LinkInv, UpInRun, LinkDownQueued, Holds
<1>3. lost \subseteq lost'
  BY OthersKeep
<1>4. lost = {} /\ (UNCHANGED <<ic_state, associated, link>> \/ Deauthenticate)
  BY <1>3, OthersKeep, SMTT(30)
<1>5. Holds(cmdq, {"INIT"}) => Holds(cmdq', {"INIT"})
  <2>1. CASE cmdq' = cmdq
    BY <2>1
  <2>2. CASE \E c \in Cmds : cmdq' = Append(cmdq, c)
    BY <2>2, AppendHolds DEF Types, QueueType
  <2>3. "none" # "SCAN" /\ \A f \in Frames : Asks(f) # "none" => Asks(f) \in Cmds
    BY DEF Asks, AuthOpen, AssocResp, Deauth, Disassoc, Cmds, Frames
  <2>4. air # <<>> => air[1][1] \in Frames
    BY DEF Types, ApType
  <2>5. QED
    BY <2>1, <2>2, <2>3, <2>4
    DEF Next, vars, ScanFire, NextScan, EndScan, RecvBeacon, Kick, RecvMgmt, RecvEapol,
        Scan2, ShellScan, ScanPoll, Deauthenticate, ProcessEvent, Associate, new_state,
        NewStateOn, Cmds
<1>6. QED
  BY <1>1, <1>2, <1>4, <1>5

-----------------------------------------------------------------------------
(* The scan's report *)

Reports == {"scan_results", "scan_aborted"}

\* What most steps do to the wait for a scan: nothing, or more events.
Undisturbed ==
    /\ UNCHANGED <<sup, scan_pending, poll>>
    /\ "event" \in lost => "event" \in lost'
    /\ Holds(events, Reports) => Holds(events', Reports)

\* The command worker may only add events.
LEMMA WorkerUndisturbed == Types /\ Worker => Undisturbed
<1> SUFFICES ASSUME Types, Worker PROVE Undisturbed
  OBVIOUS
<1>0. {"assoc", "disassoc"} \subseteq Events
  BY DEF Events
<1>1. ASSUME NEW cond, LeaveIf(cond)
      PROVE  /\ scan_pending' = scan_pending
             /\ "event" \in lost => "event" \in lost'
             /\ Holds(events, Reports) => Holds(events', Reports)
  <2>1. CASE StaLeave
    BY <1>0, <2>1, EventHolds, LostGrows DEF StaLeave, Types
  <2>2. CASE Quiet
    BY <2>2, LostGrows, SMTT(30) DEF Quiet, drv, Types
  <2>3. QED
    BY <1>1, <2>1, <2>2 DEF LeaveIf
<1>2. CASE NewstateInit \/ NewstateAssoc
  BY <1>1, <1>2 DEF NewstateInit, NewstateAssoc, host, Undisturbed
<1>3. ASSUME NEW c \in Cmds, NewstateScan(c) PROVE Undisturbed
  <2>1. CASE BeginScan(c)
    BY <1>3, <2>1, LostGrows, SMTT(30) DEF NewstateScan, BeginScan, host, drv, Types, Undisturbed
  <2>2. CASE Dwell
    BY <1>1, <1>3, <2>2 DEF NewstateScan, Dwell, host, Undisturbed
  <2>3. QED
    BY <1>3, <2>1, <2>2, SMTT(30) DEF NewstateScan
<1>4. ASSUME NEW c \in Cmds, NewstateAuth(c) PROVE Undisturbed
  BY <1>1, <1>4 DEF NewstateAuth, host, drv, Undisturbed
<1>5. CASE NewstateRun
  <2>1. CASE ic_state \in {"ASSOC", "SCAN"}
    BY <1>0, <1>5, <2>1, EventHolds, LostGrows DEF NewstateRun, host, Types, Undisturbed
  <2>2. CASE ic_state \notin {"ASSOC", "SCAN"}
    BY <1>5, <2>2, LostGrows DEF NewstateRun, Quiet, host, drv, Types, Undisturbed
  <2>3. QED
    BY <2>1, <2>2, SMTT(30)
<1>6. QED
  BY <1>2, <1>3, <1>4, <1>5 DEF Worker

\* Whoever clears scan_pending while the supplicant waits leaves a report.
LEMMA ScanStep == Types /\ ScanTracked /\ [Next]_vars => ScanTracked'
<1> SUFFICES ASSUME Types, ScanTracked, [Next]_vars PROVE ScanTracked'
  OBVIOUS
<1>0. ScanTracked <=> (sup = "scanning" /\ "event" \notin lost =>
                         (scan_pending = 1 /\ poll = "on") \/ Holds(events, Reports))
  BY DEF ScanTracked, Holds, Reports
<1>1. CASE Undisturbed
  BY <1>1 DEF Undisturbed, ScanTracked, Holds, Reports
<1>2. CASE NextScan
  <2>1. CASE EndScan
    <3>1. CASE scan_pending = 1
      <4>1. "scan_results" \in Events /\ "scan_results" \in Reports
        BY SMTT(30) DEF Events, Reports
      <4>2. "event" \notin lost' => Holds(events', Reports)
        BY <2>1, <3>1, <4>1, EventHolds, RoomLeft, SMTT(30) DEF EndScan, Types
      <4>3. QED
        BY <4>2 DEF ScanTracked, Holds, Reports
    <3>2. CASE scan_pending # 1
      <4>1. "event" \in lost => "event" \in lost'
        BY <2>1, <3>2, LostGrows, SMTT(30) DEF EndScan, Types
      <4>2. QED
        BY <1>2, <2>1, <3>2, <4>1 DEF NextScan, EndScan, host, ScanTracked
    <3>3. QED
      BY <3>1, <3>2
  <2>2. CASE ~EndScan
    BY <1>1, <1>2, <2>2, LostGrows DEF NextScan, new_state, drv, host, Types, Undisturbed
  <2>3. QED
    BY <2>1, <2>2
<1>3. CASE ScanPoll
  <2>1. CASE scan_pending = 1
    <3>1. "scan_aborted" \in Events /\ "scan_aborted" \in Reports
      BY SMTT(30) DEF Events, Reports
    <3>2. "event" \notin lost' => Holds(events', Reports)
      BY <1>3, <2>1, <3>1, EventHolds, RoomLeft, SMTT(30) DEF ScanPoll, Types
    <3>3. QED
      BY <3>2 DEF ScanTracked, Holds, Reports
  <2>2. CASE scan_pending # 1
    BY <1>3, <2>2 DEF ScanPoll, ScanTracked
  <2>3. QED
    BY <2>1, <2>2
<1>4. CASE Scan2
  BY <1>4 DEF Scan2, ScanTracked
<1>5. CASE Deauthenticate
  BY <1>5 DEF Deauthenticate, ScanTracked
<1>6. CASE ProcessEvent
  <2>1. SUFFICES ASSUME sup' = "scanning", "event" \notin lost',
                        ~(scan_pending' = 1 /\ poll' = "on")
                 PROVE  Holds(events', Reports)
    BY DEF ScanTracked, Holds, Reports
  <2>2. events # <<>> /\ events' = Tail(events) /\ UNCHANGED <<scan_pending, poll, lost>>
    BY <1>6 DEF ProcessEvent
  <2>3. sup = "scanning" /\ events[1] \notin Reports
    BY <1>6, <2>1 DEF ProcessEvent, Reports, Types, HostType
  <2>4. Holds(events, Reports)
    BY <1>0, <2>1, <2>2, <2>3
  <2>5. QED
    BY <2>2, <2>3, <2>4, TailHolds DEF Types, DrvType
<1>7. CASE \E b \in BSS : Associate(b)
  BY <1>7, SMTT(30) DEF Associate, ScanTracked
<1>8. CASE RecvEapol
  <2>1. "eapol" \in Events
    BY SMTT(30) DEF Events
  <2>2. QED
    BY <1>1, <1>8, <2>1, EventHolds, LostGrows DEF RecvEapol, host, Types, Undisturbed
<1>9. CASE \/ ScanFire \/ ShellScan \/ RecvMgmt
           \/ \E b \in BSS : RecvBeacon(b) \/ Kick(b)
           \/ UNCHANGED vars
  BY <1>1, <1>9, LostGrows, Zenon
  DEF ScanFire, ShellScan, RecvMgmt, RecvBeacon, Kick, vars, new_state, drv, host, Types,
      Undisturbed
<1>10. QED
  BY <1>1, <1>2, <1>3, <1>4, <1>5, <1>6, <1>7, <1>8, <1>9, WorkerUndisturbed DEF Next

-----------------------------------------------------------------------------
(* The theorems *)

\* The inductive invariant: the five facts hold together, whatever the order in
\* which worker, callout, receive worker and eloop task take their steps.
THEOREM StaInvAlways == Spec => []StaInv
<1>1. Init => StaInv
  BY TypesInit
  DEF Init, StaInv, HardwareInStep, UpInRun, LinkDownQueued, ScanTracked
<1>2. StaInv /\ [Next]_vars => StaInv'
  <2> SUFFICES ASSUME StaInv, [Next]_vars PROVE StaInv'
    OBVIOUS
  <2>1. Types'
    <3>1. CASE Next
      BY <3>1, TypesWorker, TypesAir, TypesOps, SMTT(30) DEF StaInv, Next
    <3>2. CASE UNCHANGED vars
      BY <3>2 DEF StaInv, Types, IcType, QueueType, ApType, DrvType, HostType, vars, ic,
                  aps, drv, host
    <3>3. QED
      BY <3>1, <3>2
  <2>2. HardwareInStep' /\ UpInRun' /\ LinkDownQueued' /\ ScanTracked'
    BY HwStep, LinkStep, ScanStep DEF StaInv, LinkInv
  <2>3. QED
    BY <2>1, <2>2 DEF StaInv
<1>3. QED
  BY <1>1, <1>2, PTL DEF Spec


\* drv->associated is 1 only in RUN, for any number of access points, channels
\* and ring slots, unless something was dropped at a full ring or a join
\* replaced the association.
THEOREM AssociatedMeansRun == Spec => []AssociatedRuns
<1>1. StaInv => AssociatedRuns
  BY DEF StaInv, UpInRun, AssociatedRuns
<1>2. QED
  BY <1>1, StaInvAlways, PTL

\* lwIP's link outlives drv->associated only while the change to INIT that takes
\* it down is queued.
THEOREM LinkGoesDown == Spec => []LinkDownQueued
<1>1. StaInv => LinkDownQueued
  BY SMTT(30) DEF StaInv
<1>2. QED
  BY <1>1, StaInvAlways, PTL

\* The types hold, and the chip's transmit pause and data filter agree with
\* net80211's state after every change.
THEOREM ChipInStep == Spec => []StationInv
<1>1. StaInv => StationInv
  BY DEF StaInv, StationInv, TypeOK, Types, IcType, QueueType, ApType, DrvType, HostType
<1>2. QED
  BY <1>1, StaInvAlways, PTL

\* The supplicant never waits for a scan that no one will report, however
\* completion, timeout and requests interleave, while no event is dropped.
THEOREM ScanNeverForgotten == Spec => []ScanTracked
<1>1. StaInv => ScanTracked
  BY DEF StaInv
<1>2. QED
  BY <1>1, StaInvAlways, PTL


-----------------------------------------------------------------------------
(* RxReassembly: the numbers of a fragment *)

\* The sequence number of frame n, and its number with that of piece k: what
\* ieee80211_input and ieee80211_defrag compare.
SeqNo(n) == (FirstSeq + n - 1) % SeqSpace
Key(s, k) == s * FragSpace + k

\* The bounds of the pieces' payload.
LEMMA PieceLenPositive == PieceLen \in Nat \ {0}
  BY RxBoundsAssumption DEF PieceLen

\* A sequence number is one of SeqSpace.
LEMMA SeqNoType ==
  \A n \in Nat \ {0} : SeqNo(n) \in 0 .. SeqSpace - 1
  BY RxBoundsAssumption DEF SeqNo

\* Fewer than SeqSpace frames have different sequence numbers.
LEMMA SeqNoInjective ==
  ASSUME NEW n \in 1 .. MaxMsdus, NEW m \in 1 .. MaxMsdus, SeqNo(n) = SeqNo(m)
  PROVE  n = m
<1> DEFINE a == FirstSeq + n - 1
           b == FirstSeq + m - 1
<1>1. /\ a \in 0 .. 2 * SeqSpace - 1 /\ b \in 0 .. 2 * SeqSpace - 1
      /\ a - b < SeqSpace /\ b - a < SeqSpace
  BY RxBoundsAssumption
<1>2. SeqSpace \in Nat \ {0} /\ a % SeqSpace = b % SeqSpace
  BY RxBoundsAssumption DEF SeqNo
<1>3. a = b
  <2> HIDE DEF a, b
  <2>1. \A x \in 0 .. 2 * SeqSpace - 1 :
          x % SeqSpace = IF x < SeqSpace THEN x ELSE x - SeqSpace
    <3> TAKE x \in 0 .. 2 * SeqSpace - 1
    <3>1. CASE x < SeqSpace
      BY <1>2, <3>1
    <3>2. CASE x >= SeqSpace
      BY <1>2, <3>2
    <3> QED BY <1>2, <3>1, <3>2
  <2> QED BY <1>1, <1>2, <2>1
<1> QED BY <1>3, RxBoundsAssumption, SMTT(30)

\* The two numbers of a key can be read back from it.
LEMMA KeyParts ==
  ASSUME NEW s \in Nat, NEW k \in 0 .. FragSpace - 1
  PROVE  Key(s, k) \in Nat /\ Key(s, k) \div FragSpace = s
  BY RxBoundsAssumption DEF Key

\* A key determines them.
LEMMA KeyInjective ==
  ASSUME NEW s \in Nat, NEW k \in 0 .. FragSpace - 1,
         NEW t \in Nat, NEW j \in 0 .. FragSpace - 1, Key(s, k) = Key(t, j)
  PROVE  s = t /\ k = j
<1>1. s = t
  BY KeyParts
<1> QED BY <1>1, RxBoundsAssumption DEF Key

\* A key fits the sequence control field.
LEMMA KeyBound ==
  ASSUME NEW s \in 0 .. SeqSpace - 1, NEW k \in 0 .. FragSpace - 1
  PROVE  Key(s, k) \in 0 .. SeqSpace * FragSpace - 1
<1>1. s * FragSpace <= (SeqSpace - 1) * FragSpace
  BY RxBoundsAssumption
<1>2. (SeqSpace - 1) * FragSpace = SeqSpace * FragSpace - FragSpace
  BY RxBoundsAssumption
<1> QED BY <1>1, <1>2, RxBoundsAssumption DEF Key

-----------------------------------------------------------------------------
(* The cut of a frame *)

\* The pieces of the longest frame can be numbered.
LEMMA PiecesBound ==
  ASSUME NEW len \in 1 .. MaxLen
  PROVE  Pieces(len) \in 1 .. FragSpace
<1> DEFINE P == PieceLen
           q == (len + P - 1) \div P
<1>1. P \in Nat \ {0} /\ len <= FragSpace * P
  BY PieceLenPositive, RxBoundsAssumption DEF PieceLen
<1> HIDE DEF P
<1>2. q \in Nat /\ q * P <= len + P - 1 /\ len + P - 1 < (q + 1) * P
  BY <1>1
<1>3. q \in 1 .. FragSpace
  BY <1>1, <1>2, RxBoundsAssumption
<1> QED BY <1>3, RxBoundsAssumption DEF Pieces, P

\* The pieces hold the whole payload.
LEMMA PiecesCover ==
  ASSUME NEW len \in 1 .. MaxLen, NEW k \in Nat, k >= Pieces(len)
  PROVE  Upto(k, len) = len
<1> DEFINE P == PieceLen
           q == (len + P - 1) \div P
<1>1. P \in Nat \ {0} /\ len \in Nat \ {0}
  BY PieceLenPositive, RxBoundsAssumption DEF PieceLen
<1>2. CASE HdrLen + len > Mtu
  <2>1. k >= q
    BY <1>2 DEF Pieces
  <2> HIDE DEF P
  <2>2. q \in Nat /\ len + P - 1 < (q + 1) * P
    BY <1>1
  <2>3. q * P <= k * P
    BY <1>1, <2>1, <2>2
  <2>4. k * P >= len
    BY <1>1, <2>2, <2>3
  <2> QED BY <2>4, <1>1 DEF Upto, P
<1>3. CASE ~(HdrLen + len > Mtu)
  <2>1. k >= 1 /\ len <= P
    BY <1>3, RxBoundsAssumption DEF Pieces, PieceLen
  <2> HIDE DEF P
  <2>2. k * P >= P
    BY <1>1, <2>1
  <2> QED BY <2>1, <2>2, <1>1 DEF Upto, P
<1> QED BY <1>2, <1>3

\* Every piece starts where the one before ends.
LEMMA UptoGrows ==
  ASSUME NEW len \in 1 .. MaxLen, NEW k \in Nat
  PROVE  Upto(k, len) \in 0 .. len /\ Upto(k, len) <= Upto(k + 1, len) /\ Upto(0, len) = 0
  BY PieceLenPositive, RxBoundsAssumption DEF Upto

\* The first piece is not empty, so neither is what begins with it.
LEMMA UptoPositive ==
  ASSUME NEW len \in 1 .. MaxLen, NEW k \in Nat
  PROVE  Upto(k + 1, len) \in 1 .. len
  BY PieceLenPositive, RxBoundsAssumption DEF Upto

\* A byte: the frame it is of and its place there.
Octets == Nat \X Nat

\* Bytes makes a sequence of as many of them as the piece is long.
LEMMA BytesType ==
  ASSUME NEW n \in Nat, NEW i \in Nat, NEW j \in Nat, i <= j
  PROVE  Bytes(n, i, j) \in Seq(Octets) /\ Len(Bytes(n, i, j)) = j - i
  BY DEF Bytes, Octets

\* Two sequences with the same elements are the same.
LEMMA SameElements ==
  ASSUME NEW S, NEW s \in Seq(S), NEW t \in Seq(S), Len(s) = Len(t),
         \A x \in 1 .. Len(s) : s[x] = t[x]
  PROVE  s = t
<1>1. s = [x \in 1 .. Len(s) |-> s[x]] /\ t = [x \in 1 .. Len(t) |-> t[x]]
  BY SMTT(30)
<1> QED BY <1>1

\* What concatenation puts where.
LEMMA Concatenated ==
  ASSUME NEW S, NEW s \in Seq(S), NEW t \in Seq(S)
  PROVE  /\ s \o t \in Seq(S) /\ Len(s \o t) = Len(s) + Len(t)
         /\ \A x \in 1 .. Len(s) : (s \o t)[x] = s[x]
         /\ \A x \in 1 .. Len(t) : (s \o t)[Len(s) + x] = t[x]
  OBVIOUS

\* And Append.
LEMMA Appended ==
  ASSUME NEW S, NEW s \in Seq(S), NEW x \in S
  PROVE  /\ Append(s, x) \in Seq(S) /\ Len(Append(s, x)) = Len(s) + 1
         /\ Append(s, x)[Len(s) + 1] = x
         /\ \A i \in 1 .. Len(s) : Append(s, x)[i] = s[i]
  OBVIOUS

\* The bytes up to i and those from there to j are the bytes up to j.
LEMMA BytesJoin ==
  ASSUME NEW n \in Nat, NEW i \in Nat, NEW j \in Nat, i <= j
  PROVE  Bytes(n, 0, i) \o Bytes(n, i, j) = Bytes(n, 0, j)
<1> DEFINE a == Bytes(n, 0, i)
           b == Bytes(n, i, j)
           c == Bytes(n, 0, j)
<1>1. a \in Seq(Octets) /\ Len(a) = i
  <2>1. 0 \in Nat /\ 0 <= i /\ i - 0 = i
    OBVIOUS
  <2> QED BY <2>1, BytesType, Zenon
<1>2. b \in Seq(Octets) /\ Len(b) = j - i
  BY BytesType
<1>3. c \in Seq(Octets) /\ Len(c) = j
  <2>1. 0 \in Nat /\ 0 <= j /\ j - 0 = j
    OBVIOUS
  <2> QED BY <2>1, BytesType, Zenon
<1>4. /\ \A x \in 1 .. i : a[x] = <<n, x>>
      /\ \A x \in 1 .. j - i : b[x] = <<n, i + x>>
      /\ \A x \in 1 .. j : c[x] = <<n, x>>
  BY DEF Bytes
<1> HIDE DEF a, b, c
<1>5. /\ a \o b \in Seq(Octets) /\ Len(a \o b) = i + (j - i)
      /\ \A x \in 1 .. i : (a \o b)[x] = a[x]
      /\ \A x \in 1 .. j - i : (a \o b)[i + x] = b[x]
  <2>1. /\ a \o b \in Seq(Octets) /\ Len(a \o b) = Len(a) + Len(b)
        /\ \A x \in 1 .. Len(a) : (a \o b)[x] = a[x]
        /\ \A x \in 1 .. Len(b) : (a \o b)[Len(a) + x] = b[x]
    BY <1>1, <1>2, Concatenated
  <2> QED BY <1>1, <1>2, <2>1, Zenon
<1>6. i + (j - i) = j
  OBVIOUS
<1>7. ASSUME NEW x \in 1 .. j
      PROVE  (a \o b)[x] = c[x]
  <2>1. c[x] = <<n, x>>
    BY <1>4, SMTT(30)
  <2>2. CASE x \in 1 .. i
    BY <1>4, <1>5, <2>1, <2>2
  <2>3. CASE x \notin 1 .. i
    <3>1. x - i \in 1 .. j - i /\ i + (x - i) = x
      BY <2>3, SMTT(30)
    <3>2. b[x - i] = <<n, x>>
      BY <1>4, <3>1, SMTT(30)
    <3>3. (a \o b)[x] = b[x - i]
      BY <1>5, <3>1
    <3> QED BY <2>1, <3>2, <3>3
  <2> QED BY <2>2, <2>3, Zenon
<1>8. a \o b = c
  BY <1>3, <1>5, <1>6, <1>7, SameElements, Zenon
<1> QED BY <1>8 DEF a, b, c

-----------------------------------------------------------------------------
(* RxReassembly: the invariant *)

\* The numbers and flags of both sides.
SidesType ==
  /\ msdu \in 1 .. MaxMsdus + 1 /\ length \in 0 .. MaxLen /\ piece \in 0 .. FragSpace - 1
  /\ retry \in BOOLEAN
  /\ rxseqs \in 0 .. SeqSpace * FragSpace - 1 /\ lastseq \in 0 .. SeqSpace * FragSpace - 1
  /\ heard \subseteq 0 .. FragSpace - 1

\* The chain c whose header says last holds exactly the pieces 0 .. j of
\* frame n, with pieces of it still to come.
PiecesOf(c, last, n, len, j) ==
  /\ c.mbufs = j + 1
  /\ c.bytes = Bytes(n, 0, Upto(j + 1, len))
  /\ last = Key(SeqNo(n), j)
  /\ j + 1 < Pieces(len)

\* ... for a frame up to m, which has len bytes if it is m.
ChainOf(c, last, m, len) ==
  \/ c = NoFrame
  \/ \E n \in 1 .. MaxMsdus, l \in 1 .. MaxLen, j \in 0 .. FragSpace - 1 :
       /\ n <= m /\ (n = m => l = len)
       /\ PiecesOf(c, last, n, l, j)

ChainInv == ChainOf(rxfrag, lastseq, msdu, length)

\* The number of the frame that was passed up as d.
Number(d) == d.bytes[1][1]

Received == [bytes : Seq(Octets), pktlen : Nat]

\* The frames passed up are whole and in order; m is among them only if done.
Orderly(D, m, done) ==
  /\ D \in Seq(Received)
  /\ \A i \in 1 .. Len(D) :
       /\ D[i].pktlen = Len(D[i].bytes) /\ Whole(D[i].bytes)
       /\ Number(D[i]) \in i .. m
       /\ Number(D[i]) = m => done
  /\ \A i, j \in 1 .. Len(D) : i < j => Number(D[i]) < Number(D[j])

\* The peer repeats the last piece of its frame and the receiver has it.
Done ==
  /\ length # 0 /\ retry
  /\ piece + 1 >= Pieces(length)
  /\ rxseqs = Key(SeqNo(msdu), piece)

DeliveryInv == SidesType /\ ChainInv /\ Orderly(delivered, msdu, Done)

-----------------------------------------------------------------------------
(* What one fragment does *)

\* The fields of a chain.
IsChain(c) ==
  c = [mbufs |-> c.mbufs, hdr |-> c.hdr, bytes |-> c.bytes, pktlen |-> c.pktlen]

\* A received fragment, before it is linked to others.
OneMbuf(b) == [mbufs |-> 1, hdr |-> HdrLen, bytes |-> b, pktlen |-> HdrLen + Len(b)]

\* What it is made of.
LEMMA OneMbufFields ==
  ASSUME NEW b
  PROVE  OneMbuf(b).mbufs = 1 /\ OneMbuf(b).bytes = b /\ IsChain(OneMbuf(b))
  BY DEF OneMbuf, IsChain

\* The fragment on the air.
LEMMA CurrentFields ==
  ASSUME SidesType, Sending
  PROVE  /\ msdu \in 1 .. MaxMsdus /\ length \in 1 .. MaxLen
         /\ Current.rxseq = Key(SeqNo(msdu), piece)
         /\ Current.frag = piece /\ Current.retry = retry
         /\ Current.more = (piece + 1 < Pieces(length))
         /\ Current.m = OneMbuf(Bytes(msdu, Upto(piece, length), Upto(piece + 1, length)))
<1>1. msdu \in 1 .. MaxMsdus /\ length \in 1 .. MaxLen
  BY RxBoundsAssumption, SMTT(30) DEF SidesType, Sending
<1> QED BY <1>1, Zenon DEF Current, Fragment, Key, SeqNo, OneMbuf

\* Its number fits the field, and gives the sequence number back.
LEMMA CurrentKey ==
  ASSUME SidesType, Sending
  PROVE  /\ SeqNo(msdu) \in 0 .. SeqSpace - 1
         /\ Key(SeqNo(msdu), piece) \in 0 .. SeqSpace * FragSpace - 1
         /\ Key(SeqNo(msdu), piece) \div FragSpace = SeqNo(msdu)
<1>1. piece \in 0 .. FragSpace - 1 /\ msdu \in Nat \ {0}
  BY RxBoundsAssumption DEF SidesType
<1>2. SeqNo(msdu) \in 0 .. SeqSpace - 1
  BY <1>1, SeqNoType
<1>3. SeqNo(msdu) \in Nat
  BY <1>2, RxBoundsAssumption
<1> QED BY <1>1, <1>2, <1>3, KeyBound, KeyParts

\* A repetition of the fragment accepted last is filtered.
LEMMA RepeatFiltered ==
  ASSUME SidesType, Sending, Done
  PROVE  Duplicate(Current)
<1>1. Current.rxseq = rxseqs /\ Current.retry
  BY CurrentFields, Zenon DEF Done
<1>2. rxseqs \in Nat
  BY DEF SidesType
<1> QED BY <1>1, <1>2 DEF Duplicate

\* The next piece of the chain is the next piece of the frame on the air.
LEMMA InOrderPiece ==
  ASSUME SidesType, Sending,
         NEW n \in 1 .. MaxMsdus, NEW l \in 1 .. MaxLen, NEW j \in 0 .. FragSpace - 1,
         n <= msdu, n = msdu => l = length,
         PiecesOf(rxfrag, lastseq, n, l, j), InOrder(Current)
  PROVE  n = msdu /\ l = length /\ piece = j + 1
<1>1. j + 1 < Pieces(l) /\ Pieces(l) \in 1 .. FragSpace
  BY PiecesBound, SMTT(30) DEF PiecesOf
<1>2. j + 1 \in 0 .. FragSpace - 1 /\ piece \in 0 .. FragSpace - 1
  BY <1>1, RxBoundsAssumption, SMTT(30) DEF SidesType
<1>3. SeqNo(n) \in Nat /\ SeqNo(msdu) \in Nat /\ msdu \in 1 .. MaxMsdus
  <2>1. msdu \in 1 .. MaxMsdus
    BY CurrentFields, SMTT(30)
  <2> QED BY <2>1, SeqNoType, RxBoundsAssumption, SMTT(30)
<1>4. Key(SeqNo(msdu), piece) = Key(SeqNo(n), j) + 1
  BY CurrentFields, SMTT(30) DEF InOrder, PiecesOf
<1>5. Key(SeqNo(n), j) + 1 = Key(SeqNo(n), j + 1)
  BY <1>3, RxBoundsAssumption, SMTT(30) DEF Key
<1>6. SeqNo(msdu) = SeqNo(n) /\ piece = j + 1
  BY <1>2, <1>3, <1>4, <1>5, KeyInjective, SMTT(30)
<1>7. msdu = n
  BY <1>3, <1>6, SeqNoInjective, SMTT(30)
<1> QED BY <1>6, <1>7

\* The chain ieee80211_defrag comes to.
Chain(f) ==
  IF InOrder(f) THEN Extended(f) ELSE IF f.frag = 0 THEN f.m ELSE NoFrame

\* It holds the frame from its first piece to the one on the air, or nothing.
LEMMA ChainSoFar ==
  ASSUME SidesType, ChainInv, Sending
  PROVE  \/ Chain(Current) = NoFrame
         \/ /\ Chain(Current) # NoFrame /\ IsChain(Chain(Current))
            /\ Chain(Current).mbufs = piece + 1
            /\ Chain(Current).bytes = Bytes(msdu, 0, Upto(piece + 1, length))
<1> DEFINE f == Current
           u == Upto(piece, length)
           v == Upto(piece + 1, length)
           b == Bytes(msdu, u, v)
<1>1. /\ msdu \in 1 .. MaxMsdus /\ length \in 1 .. MaxLen /\ piece \in Nat
      /\ f.frag = piece /\ f.m = OneMbuf(b)
  BY CurrentFields DEF SidesType
<1>2. CASE InOrder(f)
  <2>1. PICK n \in 1 .. MaxMsdus, l \in 1 .. MaxLen, j \in 0 .. FragSpace - 1 :
          /\ n <= msdu /\ (n = msdu => l = length)
          /\ PiecesOf(rxfrag, lastseq, n, l, j)
    BY <1>2, SMTT(30) DEF ChainInv, ChainOf, InOrder
  <2>2. n = msdu /\ l = length /\ piece = j + 1
    BY <1>2, <2>1, InOrderPiece, SMTT(30)
  <2>3. /\ rxfrag.mbufs = piece
        /\ rxfrag.bytes = Bytes(msdu, 0, Upto(piece, length))
    BY <2>1, <2>2, SMTT(30) DEF PiecesOf
  <2>4. /\ Extended(f).mbufs = rxfrag.mbufs + 1
        /\ Extended(f).bytes = rxfrag.bytes \o b /\ IsChain(Extended(f))
    <3> HIDE DEF f, b
    <3> DEFINE m == m_adj(f.m)
               r == m_cat(rxfrag, m)
    <3>1. m.bytes = b
      BY <1>1 DEF m_adj, OneMbuf
    <3>2. /\ IsChain(r) /\ r.mbufs = rxfrag.mbufs + 1 /\ r.bytes = rxfrag.bytes \o b
      BY <3>1, Zenon DEF m_cat, IsChain
    <3>3. Extended(f) = [r EXCEPT !.pktlen = @ + m.pktlen]
      BY DEF Extended
    <3> HIDE DEF m, r
    <3>4. Extended(f) = [mbufs |-> r.mbufs, hdr |-> r.hdr, bytes |-> r.bytes,
                         pktlen |-> r.pktlen + m.pktlen]
      BY <3>2, <3>3, Zenon DEF IsChain
    <3> QED BY <3>2, <3>4 DEF IsChain
  <2>5. rxfrag.bytes \o b = Bytes(msdu, 0, v)
    <3>1. u \in Nat /\ v \in Nat /\ u <= v /\ msdu \in Nat
      BY <1>1, UptoGrows
    <3> HIDE DEF u, v
    <3>2. Bytes(msdu, 0, u) \o Bytes(msdu, u, v) = Bytes(msdu, 0, v)
      BY <3>1, BytesJoin, Zenon
    <3> QED BY <2>3, <3>2, SMTT(30) DEF u
  <2>6. Extended(f) # NoFrame
    BY <2>3, <2>4, <1>1 DEF NoFrame
  <2> QED BY <1>2, <2>3, <2>4, <2>5, <2>6, Zenon DEF Chain
<1>3. CASE ~InOrder(f) /\ f.frag = 0
  <2>1. u = 0 /\ piece = 0
    BY <1>1, <1>3, UptoGrows
  <2>2. f.m # NoFrame
    <3> HIDE DEF f, b
    <3>1. f.m.mbufs = 1
      BY <1>1, OneMbufFields, Zenon
    <3>2. NoFrame.mbufs # 1
      BY DEF NoFrame
    <3> QED BY <3>1, <3>2, Zenon
  <2>3. f.m.mbufs = piece + 1 /\ f.m.bytes = Bytes(msdu, 0, v) /\ IsChain(f.m)
    <3>1. OneMbuf(b).mbufs = 1 /\ OneMbuf(b).bytes = b /\ IsChain(OneMbuf(b))
      BY OneMbufFields, Zenon
    <3>2. b = Bytes(msdu, 0, v) /\ piece + 1 = 1
      BY <2>1
    <3> QED BY <1>1, <3>1, <3>2, Zenon
  <2> QED BY <1>3, <2>2, <2>3, Zenon DEF Chain
<1>4. CASE ~InOrder(f) /\ f.frag # 0
  BY <1>4, Zenon DEF Chain
<1> QED BY <1>2, <1>3, <1>4, SMTT(30)

\* ieee80211_defrag on the fragment on the air: the chain is kept while
\* pieces are to come, and is the whole frame when there are none.
LEMMA DefragResult ==
  ASSUME SidesType, ChainInv, Sending
  PROVE  LET d == ieee80211_defrag(Current)
         IN /\ d.last = Key(SeqNo(msdu), piece)
            /\ \/ d.keep = NoFrame
               \/ d.keep # NoFrame /\ PiecesOf(d.keep, d.last, msdu, length, piece)
            /\ \/ d.frame = NoFrame
               \/ /\ IsChain(d.frame) /\ d.frame.bytes = Bytes(msdu, 0, length)
                  /\ piece + 1 >= Pieces(length)
<1> DEFINE f == Current
           d == ieee80211_defrag(f)
<1>1. /\ d.last = f.rxseq
      /\ d.keep = IF f.more THEN Chain(f) ELSE NoFrame
      /\ d.frame = IF f.more THEN NoFrame ELSE Chain(f)
  BY Zenon DEF ieee80211_defrag, Chain
<1>2. /\ length \in 1 .. MaxLen /\ piece \in Nat
      /\ f.rxseq = Key(SeqNo(msdu), piece) /\ f.more = (piece + 1 < Pieces(length))
  BY CurrentFields, SMTT(30) DEF SidesType
<1>3. \/ Chain(f) = NoFrame
      \/ /\ Chain(f) # NoFrame /\ IsChain(Chain(f))
         /\ Chain(f).mbufs = piece + 1
         /\ Chain(f).bytes = Bytes(msdu, 0, Upto(piece + 1, length))
  BY ChainSoFar
<1>4. Pieces(length) \in Nat
  BY <1>2, PiecesBound
<1> HIDE DEF f, d
<1>5. CASE f.more
  BY <1>1, <1>2, <1>3, <1>5, Zenon DEF PiecesOf, d, f
<1>6. CASE ~f.more
  <2>1. piece + 1 >= Pieces(length) /\ piece + 1 \in Nat
    <3>1. ~(piece + 1 < Pieces(length))
      BY <1>2, <1>6, Zenon
    <3>2. piece \in Nat
      BY <1>2, SMTT(30)
    <3> QED BY <1>4, <3>1, <3>2
  <2>2. Upto(piece + 1, length) = length
    BY <1>2, <2>1, PiecesCover, SMTT(30)
  <2> QED BY <1>1, <1>2, <1>3, <1>6, <2>1, <2>2, Zenon DEF d, f
<1> QED BY <1>5, <1>6, Zenon

\* So the chain stays what it should be, whatever was received.
LEMMA InputChain ==
  ASSUME SidesType, ChainInv, Sending, Input(Current)
  PROVE  /\ ChainOf(rxfrag', lastseq', msdu, length)
         /\ rxseqs' \in 0 .. SeqSpace * FragSpace - 1
         /\ lastseq' \in 0 .. SeqSpace * FragSpace - 1
<1>1. CASE Duplicate(Current)
  <2>1. rxfrag' = rxfrag /\ lastseq' = lastseq /\ rxseqs' = rxseqs
    BY <1>1, Zenon DEF Input
  <2> QED BY <2>1 DEF ChainInv, SidesType
<1>2. CASE ~Duplicate(Current)
  <2> DEFINE d == ieee80211_defrag(Current)
  <2>1. /\ rxseqs' = Current.rxseq /\ rxfrag' = d.keep
        /\ lastseq' = IF d.keep = NoFrame THEN 0 ELSE d.last
    BY <1>2, Zenon DEF Input
  <2>2. /\ d.last = Key(SeqNo(msdu), piece)
        /\ \/ d.keep = NoFrame
           \/ d.keep # NoFrame /\ PiecesOf(d.keep, d.last, msdu, length, piece)
    BY DefragResult, Zenon
  <2> HIDE DEF d
  <2>3. Key(SeqNo(msdu), piece) \in 0 .. SeqSpace * FragSpace - 1
    BY CurrentKey
  <2>4. 0 \in 0 .. SeqSpace * FragSpace - 1
    <3>1. SeqSpace * FragSpace \in Nat
      BY RxBoundsAssumption, SMTT(30)
    <3> QED BY <2>3, <3>1
  <2>5. /\ msdu \in 1 .. MaxMsdus /\ length \in 1 .. MaxLen /\ msdu <= msdu
        /\ piece \in 0 .. FragSpace - 1 /\ Current.rxseq = Key(SeqNo(msdu), piece)
    BY CurrentFields, SMTT(30) DEF SidesType
  <2>6. ChainOf(rxfrag', lastseq', msdu, length)
    BY <2>1, <2>2, <2>5 DEF ChainOf
  <2> QED BY <2>1, <2>2, <2>3, <2>4, <2>5, <2>6
<1> QED BY <1>1, <1>2, SMTT(30)

-----------------------------------------------------------------------------
(* What is passed up *)

\* A frame not yet passed up goes behind the others.
LEMMA OrderlyAppend ==
  ASSUME NEW D, NEW m \in 1 .. MaxMsdus, Orderly(D, m, FALSE), NEW len \in 1 .. MaxLen
  PROVE  Orderly(Append(D, [bytes |-> Bytes(m, 0, len), pktlen |-> len]), m, TRUE)
<1> DEFINE b == Bytes(m, 0, len)
           e == [bytes |-> b, pktlen |-> len]
           E == Append(D, e)
           k == Len(D) + 1
<1>1. /\ m \in Nat /\ len \in Nat /\ 0 <= len /\ len - 0 = len /\ 1 \in 1 .. len
  BY RxBoundsAssumption
<1>2. b \in Seq(Octets) /\ Len(b) = len
  BY <1>1, BytesType, Zenon
<1>3. b[1][1] = m
  BY <1>1 DEF Bytes
<1>4. Whole(b)
  BY SMTT(30) DEF Whole
<1> HIDE DEF b
<1>5. e \in Received /\ e.bytes = b /\ e.pktlen = len
  BY <1>1, <1>2, SMTT(30) DEF Received
<1> HIDE DEF e
<1>6. D \in Seq(Received) /\ Len(D) \in Nat
  BY SMTT(30) DEF Orderly
<1>7. /\ E \in Seq(Received) /\ Len(E) = k /\ E[k] = e
      /\ \A i \in 1 .. Len(D) : E[i] = D[i]
  <2>1. e \in Received /\ D \in Seq(Received)
    BY <1>5, <1>6, SMTT(30)
  <2> QED BY <2>1, Appended
<1>8. \A i \in 1 .. Len(D) :
        /\ D[i].pktlen = Len(D[i].bytes) /\ Whole(D[i].bytes)
        /\ Number(D[i]) \in i .. m /\ Number(D[i]) # m
  BY SMTT(30) DEF Orderly
<1>9. \A i, j \in 1 .. Len(D) : i < j => Number(D[i]) < Number(D[j])
  BY SMTT(30) DEF Orderly
<1>10. Number(e) = m
  BY <1>3, <1>5 DEF Number
<1>11. k <= m
  <2>1. CASE Len(D) = 0
    BY <2>1, SMTT(30)
  <2>2. CASE Len(D) # 0
    <3>1. Len(D) \in 1 .. Len(D)
      BY <1>6, <2>2, SMTT(30)
    <3>2. Number(D[Len(D)]) \in Len(D) .. m /\ Number(D[Len(D)]) # m
      BY <1>8, <3>1, SMTT(30)
    <3> QED BY <1>1, <1>6, <3>2
  <2> QED BY <2>1, <2>2
<1> HIDE DEF E
<1>12. ASSUME NEW i \in 1 .. k
       PROVE  /\ E[i].pktlen = Len(E[i].bytes) /\ Whole(E[i].bytes)
              /\ Number(E[i]) \in i .. m
  <2>1. CASE i = k
    BY <1>1, <1>2, <1>4, <1>5, <1>6, <1>7, <1>10, <1>11, <2>1, SMTT(30)
  <2>2. CASE i # k
    <3>1. i \in 1 .. Len(D)
      BY <1>6, <2>2, SMTT(30)
    <3> QED BY <1>7, <1>8, <3>1
  <2> QED BY <2>1, <2>2, SMTT(30)
<1>13. ASSUME NEW i \in 1 .. k, NEW j \in 1 .. k, i < j
       PROVE  Number(E[i]) < Number(E[j])
  <2>1. i \in 1 .. Len(D) /\ E[i] = D[i]
    BY <1>6, <1>7, <1>13, SMTT(30)
  <2>2. CASE j = k
    <3>1. Number(D[i]) \in i .. m /\ Number(D[i]) # m
      BY <1>8, <2>1, SMTT(30)
    <3> QED BY <1>1, <1>7, <1>10, <2>1, <2>2, <3>1, SMTT(30)
  <2>3. CASE j # k
    <3>1. j \in 1 .. Len(D) /\ E[j] = D[j]
      BY <1>6, <1>7, <2>3, SMTT(30)
    <3> QED BY <1>9, <1>13, <2>1, <3>1, SMTT(30)
  <2> QED BY <2>2, <2>3, SMTT(30)
<1> QED BY <1>7, <1>12, <1>13, Zenon DEF Orderly, E, e, b
\* It is not passed up a second time: the filter stops a repetition.
LEMMA InputOrder ==
  ASSUME SidesType, ChainInv, Sending, Orderly(delivered, msdu, Done), Input(Current)
  PROVE  Orderly(delivered', msdu,
                 piece + 1 >= Pieces(length) /\ rxseqs' = Key(SeqNo(msdu), piece))
<1> DEFINE last == piece + 1 >= Pieces(length) /\ rxseqs' = Key(SeqNo(msdu), piece)
<1>1. CASE Duplicate(Current)
  <2>1. delivered' = delivered /\ rxseqs' = rxseqs
    BY <1>1, SMTT(30) DEF Input
  <2>2. Done => last
    BY <2>1, SMTT(30) DEF Done
  <2> HIDE DEF last
  <2> QED BY <2>1, <2>2, SMTT(30) DEF Orderly, last
<1>2. CASE ~Duplicate(Current)
  <2> DEFINE d == ieee80211_defrag(Current)
  <2>1. ~Done
    BY <1>2, RepeatFiltered, SMTT(30)
  <2>2. Orderly(delivered, msdu, FALSE)
    BY <2>1 DEF Orderly
  <2>3. rxseqs' = Key(SeqNo(msdu), piece) /\ msdu \in 1 .. MaxMsdus /\ length \in 1 .. MaxLen
    BY <1>2, CurrentFields, Zenon DEF Input
  <2>4. CASE d.frame = NoFrame
    <3>1. delivered' = delivered
      BY <1>2, <2>4, Zenon DEF Input
    <3> HIDE DEF last
    <3> QED BY <2>2, <3>1, SMTT(30) DEF Orderly, last
  <2>5. CASE d.frame # NoFrame
    <3>1. delivered' = Append(delivered, ieee80211_decap(d.frame))
      BY <1>2, <2>5, Zenon DEF Input
    <3>2. IsChain(d.frame) /\ d.frame.bytes = Bytes(msdu, 0, length) /\ piece + 1 >= Pieces(length)
      BY <2>5, DefragResult, Zenon
    <3>3. Len(Bytes(msdu, 0, length)) = length
      <4>1. msdu \in Nat /\ length \in Nat /\ 0 \in Nat /\ 0 <= length /\ length - 0 = length
        BY <2>3
      <4> QED BY <4>1, BytesType, Zenon
    <3>4. ieee80211_decap(d.frame) = [bytes |-> Bytes(msdu, 0, length), pktlen |-> length]
      <4> HIDE DEF d
      <4> QED BY <3>2, <3>3 DEF ieee80211_decap, m_adj, IsChain
    <3>5. Orderly(delivered', msdu, TRUE)
      BY <2>2, <2>3, <3>1, <3>4, OrderlyAppend, Zenon
    <3>6. last
      BY <2>3, <3>2
    <3> HIDE DEF last
    <3> QED BY <3>5, <3>6 DEF Orderly, last
  <2> QED BY <2>4, <2>5
<1> QED BY <1>1, <1>2, SMTT(30)
-----------------------------------------------------------------------------
(* The invariant is inductive *)

\* Nothing is kept and nothing was passed up at the start.
LEMMA RxInitially == RxInit => DeliveryInv
<1> SUFFICES ASSUME RxInit
             PROVE  DeliveryInv
  OBVIOUS
<1>1. 0 \in 0 .. SeqSpace * FragSpace - 1
  <2>1. 0 \in 0 .. SeqSpace - 1 /\ 0 \in 0 .. FragSpace - 1
    BY RxBoundsAssumption, SMTT(30)
  <2>2. Key(0, 0) \in 0 .. SeqSpace * FragSpace - 1 /\ Key(0, 0) = 0
    BY <2>1, KeyBound, RxBoundsAssumption DEF Key
  <2> QED BY <2>2
<1>2. SidesType
  <2>1. msdu \in 1 .. MaxMsdus + 1 /\ length \in 0 .. MaxLen /\ piece \in 0 .. FragSpace - 1
    BY RxBoundsAssumption DEF RxInit
  <2>2. retry \in BOOLEAN /\ heard \subseteq 0 .. FragSpace - 1
    BY Zenon DEF RxInit
  <2>3. rxseqs = 0 /\ lastseq = 0
    BY SMTT(30) DEF RxInit
  <2> QED BY <1>1, <2>1, <2>2, <2>3, Zenon DEF SidesType
<1>3. ChainInv
  BY DEF ChainInv, ChainOf, RxInit
<1>4. Orderly(delivered, msdu, Done)
  <2>1. delivered = <<>> /\ delivered \in Seq(Received) /\ Len(delivered) = 0
    BY SMTT(30) DEF RxInit
  <2> QED BY <2>1, SMTT(30) DEF Orderly
<1> QED BY <1>2, <1>3, <1>4 DEF DeliveryInv

\* A new frame: nothing of it is kept and nothing of it was passed up.
LEMMA NextFrameKeeps ==
  ASSUME SidesType, msdu \in 1 .. MaxMsdus, NEW done,
         ChainOf(rxfrag', lastseq', msdu, length),
         Orderly(delivered', msdu, done),
         rxseqs' \in 0 .. SeqSpace * FragSpace - 1,
         lastseq' \in 0 .. SeqSpace * FragSpace - 1,
         NextFrame
  PROVE  DeliveryInv'
<1>1. /\ msdu' = msdu + 1 /\ length' = 0 /\ piece' = 0 /\ retry' = FALSE /\ heard' = {}
  BY DEF NextFrame
<1>2. SidesType'
  <2>1. msdu' \in 1 .. MaxMsdus + 1 /\ length' \in 0 .. MaxLen /\ piece' \in 0 .. FragSpace - 1
    BY <1>1, RxBoundsAssumption
  <2>2. retry' \in BOOLEAN /\ heard' \subseteq 0 .. FragSpace - 1
    BY <1>1, Zenon
  <2> QED BY <2>1, <2>2, Zenon DEF SidesType
<1>3. ChainInv'
  <2>1. CASE rxfrag' = NoFrame
    BY <2>1, SMTT(30) DEF ChainInv, ChainOf
  <2>2. CASE rxfrag' # NoFrame
    <3>1. PICK n \in 1 .. MaxMsdus, l \in 1 .. MaxLen, j \in 0 .. FragSpace - 1 :
            n <= msdu /\ PiecesOf(rxfrag', lastseq', n, l, j)
      BY <2>2, SMTT(30) DEF ChainOf
    <3>2. n <= msdu + 1 /\ n # msdu + 1
      BY <3>1, RxBoundsAssumption, SMTT(30)
    <3> QED BY <1>1, <3>1, <3>2, SMTT(30) DEF ChainInv, ChainOf
  <2> QED BY <2>1, <2>2, SMTT(30)
<1>4. Orderly(delivered', msdu + 1, Done')
  <2> SUFFICES ASSUME NEW i \in 1 .. Len(delivered')
               PROVE  /\ Number(delivered'[i]) \in i .. msdu + 1
                      /\ Number(delivered'[i]) # msdu + 1
    BY SMTT(30) DEF Orderly
  <2>1. Number(delivered'[i]) \in i .. msdu /\ msdu \in Nat
    BY SMTT(30) DEF Orderly
  <2>2. delivered' \in Seq(Received)
    BY DEF Orderly
  <2>3. i \in Nat
    BY <2>2, SMTT(30)
  <2> QED BY <2>1, <2>3, SMTT(30)
<1> QED BY <1>1, <1>2, <1>3, <1>4, SMTT(30) DEF DeliveryInv

\* The length of the new frame is chosen: no chain depends on it yet.
LEMMA StartFrameKeeps ==
  ASSUME DeliveryInv, StartFrame
  PROVE  DeliveryInv'
<1>1. /\ length = 0 /\ length' \in 1 .. MaxLen /\ msdu' = msdu
      /\ UNCHANGED <<piece, retry, rxseqs, rxfrag, lastseq, heard, delivered>>
  BY SMTT(30) DEF StartFrame
<1>2. SidesType'
  BY <1>1, RxBoundsAssumption DEF SidesType, DeliveryInv
<1>3. ChainInv'
  <2>1. CASE rxfrag = NoFrame
    BY <1>1, <2>1, SMTT(30) DEF ChainInv, ChainOf
  <2>2. CASE rxfrag # NoFrame
    <3>1. PICK n \in 1 .. MaxMsdus, l \in 1 .. MaxLen, j \in 0 .. FragSpace - 1 :
            n <= msdu /\ (n = msdu => l = length) /\ PiecesOf(rxfrag, lastseq, n, l, j)
      BY <2>2, SMTT(30) DEF DeliveryInv, ChainInv, ChainOf
    <3>2. n # msdu
      BY <1>1, <3>1
    <3> QED BY <1>1, <3>1, <3>2, SMTT(30) DEF ChainInv, ChainOf
  <2> QED BY <2>1, <2>2, SMTT(30)
<1>4. ~Done
  BY <1>1, SMTT(30) DEF Done
<1>5. Orderly(delivered, msdu, Done')
  BY <1>4 DEF DeliveryInv, Orderly
<1> QED BY <1>1, <1>2, <1>3, <1>5, SMTT(30) DEF DeliveryInv

\* A lost fragment changes nothing but the retry bit.
LEMMA SendLostKeeps ==
  ASSUME DeliveryInv, SendLost
  PROVE  DeliveryInv'
<1>1. /\ retry' = TRUE
      /\ UNCHANGED <<msdu, length, piece, rxseqs, rxfrag, lastseq, heard, delivered>>
  BY SMTT(30) DEF SendLost
<1>2. SidesType'
  BY <1>1, SMTT(30) DEF SidesType, DeliveryInv
<1>3. ChainInv'
  BY <1>1 DEF ChainInv, DeliveryInv
<1>4. Done => Done'
  BY <1>1, SMTT(30) DEF Done
<1>5. Orderly(delivered, msdu, Done')
  BY <1>4, SMTT(30) DEF DeliveryInv, Orderly
<1> QED BY <1>1, <1>2, <1>3, <1>5 DEF DeliveryInv

\* A frame given up leaves its chain behind.
LEMMA GiveUpKeeps ==
  ASSUME DeliveryInv, GiveUp
  PROVE  DeliveryInv'
<1>1. /\ SidesType /\ Sending /\ NextFrame
      /\ UNCHANGED <<rxseqs, rxfrag, lastseq, delivered>>
  BY SMTT(30) DEF GiveUp, DeliveryInv
<1>2. msdu \in 1 .. MaxMsdus
  BY <1>1, CurrentFields, SMTT(30)
<1>3. /\ ChainOf(rxfrag', lastseq', msdu, length) /\ Orderly(delivered', msdu, Done)
      /\ rxseqs' \in 0 .. SeqSpace * FragSpace - 1
      /\ lastseq' \in 0 .. SeqSpace * FragSpace - 1
  BY <1>1 DEF DeliveryInv, ChainInv, SidesType
<1> QED BY <1>1, <1>2, <1>3, NextFrameKeeps

\* A fragment that arrives unacknowledged comes again, and is known by then.
LEMMA SendUnackedKeeps ==
  ASSUME DeliveryInv, SendUnacked
  PROVE  DeliveryInv'
<1>1. /\ SidesType /\ ChainInv /\ Orderly(delivered, msdu, Done) /\ Sending /\ Input(Current)
      /\ Hear /\ retry' = TRUE /\ UNCHANGED <<msdu, length, piece>>
  BY SMTT(30) DEF DeliveryInv, SendUnacked
<1>2. /\ ChainOf(rxfrag', lastseq', msdu, length)
      /\ rxseqs' \in 0 .. SeqSpace * FragSpace - 1
      /\ lastseq' \in 0 .. SeqSpace * FragSpace - 1
  BY <1>1, InputChain, SMTT(30)
<1>3. Orderly(delivered', msdu,
              piece + 1 >= Pieces(length) /\ rxseqs' = Key(SeqNo(msdu), piece))
  BY <1>1, InputOrder, SMTT(30)
<1>4. heard' \subseteq 0 .. FragSpace - 1
  BY <1>1, SMTT(30) DEF Hear, SidesType
<1>5. SidesType'
  BY <1>1, <1>2, <1>4, SMTT(30) DEF SidesType
<1>6. ChainInv'
  BY <1>1, <1>2, SMTT(30) DEF ChainInv
<1>7. (piece + 1 >= Pieces(length) /\ rxseqs' = Key(SeqNo(msdu), piece)) => Done'
  BY <1>1, SMTT(30) DEF Done, Sending
<1>8. Orderly(delivered', msdu, Done')
  BY <1>3, <1>7 DEF Orderly
<1> QED BY <1>1, <1>5, <1>6, <1>8 DEF DeliveryInv

\* A fragment that arrives acknowledged is followed by the next, or ends the frame.
LEMMA SendAckedKeeps ==
  ASSUME DeliveryInv, SendAcked
  PROVE  DeliveryInv'
<1>1. /\ SidesType /\ ChainInv /\ Orderly(delivered, msdu, Done) /\ Sending /\ Input(Current)
  BY SMTT(30) DEF DeliveryInv, SendAcked
<1>2. /\ ChainOf(rxfrag', lastseq', msdu, length)
      /\ rxseqs' \in 0 .. SeqSpace * FragSpace - 1
      /\ lastseq' \in 0 .. SeqSpace * FragSpace - 1
  BY <1>1, InputChain, SMTT(30)
<1>3. Orderly(delivered', msdu,
              piece + 1 >= Pieces(length) /\ rxseqs' = Key(SeqNo(msdu), piece))
  BY <1>1, InputOrder, SMTT(30)
<1>4. /\ msdu \in 1 .. MaxMsdus /\ Pieces(length) \in 1 .. FragSpace
      /\ Current.more = (piece + 1 < Pieces(length))
  BY <1>1, CurrentFields, PiecesBound, SMTT(30)
<1>5. CASE Current.more
  <2>1. piece' = piece + 1 /\ retry' = FALSE /\ Hear /\ UNCHANGED <<msdu, length>>
    BY <1>5 DEF SendAcked
  <2>2. piece + 1 < Pieces(length)
    BY <1>4, <1>5, Zenon
  <2>3. heard' \subseteq 0 .. FragSpace - 1
    BY <1>1, <2>1, SMTT(30) DEF Hear, SidesType
  <2>4. piece' \in 0 .. FragSpace - 1
    BY <1>1, <1>4, <2>1, <2>2, RxBoundsAssumption DEF SidesType
  <2>5. SidesType'
    BY <1>1, <1>2, <2>1, <2>3, <2>4, Zenon DEF SidesType
  <2>6. ChainInv'
    BY <1>2, <2>1, SMTT(30) DEF ChainInv
  <2>7. ~(piece + 1 >= Pieces(length))
    BY <1>1, <1>4, <2>2, SMTT(30) DEF SidesType
  <2>8. Orderly(delivered', msdu, Done')
    BY <1>3, <2>7, SMTT(30) DEF Orderly
  <2> QED BY <2>1, <2>5, <2>6, <2>8 DEF DeliveryInv
<1>6. CASE ~Current.more
  <2>1. NextFrame
    BY <1>6 DEF SendAcked
  <2> QED BY <1>1, <1>2, <1>3, <1>4, <2>1, NextFrameKeeps
<1> QED BY <1>5, <1>6

\* Every step keeps the invariant.
LEMMA RxInductive == DeliveryInv /\ [RxNext]_rxVars => DeliveryInv'
<1> SUFFICES ASSUME DeliveryInv, [RxNext]_rxVars
             PROVE  DeliveryInv'
  OBVIOUS
<1>1. CASE UNCHANGED rxVars
  <2>1. UNCHANGED <<msdu, length, piece, retry, rxseqs, rxfrag, lastseq, heard, delivered>>
    BY <1>1, SMTT(30) DEF rxVars
  <2>2. SidesType' /\ ChainInv'
    BY <2>1, SMTT(30) DEF DeliveryInv, SidesType, ChainInv
  <2>3. Done => Done'
    BY <2>1, SMTT(30) DEF Done
  <2>4. Orderly(delivered', msdu', Done')
    BY <2>1, <2>3, SMTT(30) DEF DeliveryInv, Orderly
  <2> QED BY <2>2, <2>4, SMTT(30) DEF DeliveryInv
<1> QED BY <1>1, StartFrameKeeps, SendAckedKeeps, SendUnackedKeeps, SendLostKeeps,
           GiveUpKeeps DEF RxNext

\* So it always holds.
LEMMA RxAlways == RxSpec => []DeliveryInv
  BY RxInitially, RxInductive, PTL DEF RxSpec

\* The types of both sides hold, the chain never outgrows a frame, and what
\* ieee80211_input_data passes up is one whole frame of the peer.
THEOREM RxStaysSound == RxSpec => []RxInv
<1>1. DeliveryInv => RxInv
  <2> SUFFICES ASSUME DeliveryInv
               PROVE  RxInv
    OBVIOUS
  <2>1. rxfrag.mbufs <= FragSpace
    <3>1. CASE rxfrag = NoFrame
      BY <3>1, RxBoundsAssumption DEF NoFrame
    <3>2. CASE rxfrag # NoFrame
      <4>1. PICK j \in 0 .. FragSpace - 1 : rxfrag.mbufs = j + 1
        BY <3>2, SMTT(30) DEF DeliveryInv, ChainInv, ChainOf, PiecesOf
      <4> QED BY <4>1, RxBoundsAssumption, SMTT(30)
    <3> QED BY <3>1, <3>2, SMTT(30)
  <2>2. DeliveredWhole
    BY DEF DeliveryInv, Orderly, DeliveredWhole
  <2>3. Len(delivered) <= MaxMsdus
    <3>1. delivered \in Seq(Received) /\ Len(delivered) \in Nat
      BY DEF DeliveryInv, Orderly
    <3>2. CASE Len(delivered) = 0
      BY <3>2, RxBoundsAssumption, SMTT(30)
    <3>3. CASE Len(delivered) # 0
      <4> DEFINE k == Len(delivered)
      <4>1. k \in 1 .. k
        BY <3>1, <3>3, SMTT(30)
      <4>2. Whole(delivered[k].bytes) /\ Number(delivered[k]) \in k .. msdu
        BY <4>1 DEF DeliveryInv, Orderly
      <4>3. PICK n \in 1 .. MaxMsdus, len \in 1 .. MaxLen : delivered[k].bytes = Bytes(n, 0, len)
        BY <4>2, SMTT(30) DEF Whole
      <4>4. Bytes(n, 0, len)[1][1] = n
        BY <4>3, RxBoundsAssumption, SMTT(30) DEF Bytes
      <4>5. Number(delivered[k]) = n
        BY <4>3, <4>4, SMTT(30) DEF Number
      <4>6. msdu \in Nat
        BY DEF DeliveryInv, SidesType
      <4> HIDE DEF k
      <4>7. k \in Nat
        BY <3>1 DEF k
      <4> QED BY <4>2, <4>5, <4>6, <4>7, RxBoundsAssumption DEF k
    <3> QED BY <3>2, <3>3, SMTT(30)
  <2>4. SidesType
    BY SMTT(30) DEF DeliveryInv
  <2> QED BY <2>1, <2>2, <2>3, <2>4 DEF RxInv, RxTypeOK, SidesType
<1> QED BY <1>1, RxAlways, PTL

\* Frames are passed up in the order sent and none twice, however often a
\* fragment is lost, repeated or given up.
THEOREM FramesInOrder == RxSpec => []DeliveredInOrder
<1>1. DeliveryInv => DeliveredInOrder
  BY SMTT(30) DEF DeliveryInv, Orderly, DeliveredInOrder, Number
<1> QED BY <1>1, RxAlways, PTL

\* Their packet length is the length of their data.
THEOREM LengthsRight == RxSpec => []DeliveredLength
<1>1. DeliveryInv => DeliveredLength
  BY DEF DeliveryInv, Orderly, DeliveredLength
<1> QED BY <1>1, RxAlways, PTL

=============================================================================
