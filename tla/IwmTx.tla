-------------------------------- MODULE IwmTx --------------------------------
(***************************************************************************)
(* The transmit rings of driver/iwm/if_iwm.c together with the reference   *)
(* counts of the node table of net80211/ieee80211_node.c: every frame in   *)
(* ic_mgtq and every frame in a ring carries a reference to a node.        *)
(*                                                                         *)
(* The port runs driver and net80211 under one serializer, which a thread  *)
(* gives up only while it sleeps for an answer of the firmware.  A handler *)
(* therefore is one step, or several with the rest of its work in `todo'   *)
(* and nobody else moving; the state worker may sleep between two of its   *)
(* steps, with a bare pointer to ic_bss in hand.  IwmLink keeps the queue  *)
(* of state requests; here the worker may take any request next.           *)
(*                                                                         *)
(* Station mode: all nodes live in ic_scan and frames go to ic_bss.  The   *)
(* ageing of nodes hangs off if_watchdog, which the ports never call, and  *)
(* ic_max_keyix is 0, so there is no key map.                              *)
(***************************************************************************)
EXTENDS Integers, Sequences, FiniteSets

CONSTANTS
  MaxNodes,      \* bound: cells of the heap that nodes are allocated from
  APs,           \* addresses heard on the air
  Rings,         \* data queues; the first access category is BE
  BE,            \* WME_AC_BE: the queue of management frames
  Count,         \* IWM_TX_RING_COUNT
  HiMark,        \* IWM_TX_RING_HIMARK
  LoMark,        \* IWM_TX_RING_LOMARK
  MaxMgt,        \* bound: frames in ic_mgtq
  MaxSnd,        \* bound: frames in if_snd
  MaxResets      \* bound: how often the rings are reset

ASSUME RingAssumption ==
  /\ Count \in Nat /\ HiMark \in Nat /\ LoMark \in Nat
  /\ 0 < LoMark /\ LoMark <= HiMark /\ HiMark + 1 < Count
  /\ BE \in Rings /\ IsFiniteSet(Rings) /\ MaxNodes \in Nat \ {0}

VARIABLES
  node,          \* the heap: ni_refcnt (0: a free cell), ni_macaddr, ni_table
  bss,           \* ic_bss
  mgtq,          \* ic_mgtq: the node of each frame
  snd,           \* number of frames in if_snd
  ring,          \* data[].in of each ring: the node of a frame with the
                 \* firmware, None for a slot that is done or was reset
  cur, queued,   \* of each ring
  qfullmsk,      \* the rings marked full
  if_flags,      \* subset of {"RUNNING", "OACTIVE"}
  ic_state,
  wpc, win,      \* the state worker: where it sleeps, the node it points to
  hw,            \* "on" while the firmware answers
  todo,          \* what the thread that holds the serializer has yet to do
  lost,          \* history: references that went with a reset of the rings
  wedged,        \* history: "yes" once the rings were reset under OACTIVE
  resets         \* history: number of ring resets

ringVars == <<ring, cur, queued, qfullmsk>>
workVars == <<ic_state, wpc, win>>
history == <<lost, wedged, resets>>
vars == <<node, bss, mgtq, snd, ringVars, if_flags, workVars, hw, todo, history>>

Nodes == 1 .. MaxNodes
None == 0
Slots == 0 .. Count - 1
Own == "own"             \* ic_myaddr
FreeCell == [ref |-> 0, mac |-> Own, tab |-> FALSE]

-----------------------------------------------------------------------------
(* ieee80211_node.c: reference counts over a heap nd *)

\* The cell the allocator hands out; None when memory is short.
FreshCell(nd) ==
  LET free == {n \in Nodes : nd[n].ref = 0}
  IN IF free = {} THEN None ELSE CHOOSE n \in free : TRUE

ref_node(nd, n) == [nd EXCEPT ![n].ref = @ + 1]

\* ieee80211_free_node: the last reference returns the storage.
free_node(nd, n) ==
  IF nd[n].ref = 1 THEN [nd EXCEPT ![n] = FreeCell] ELSE [nd EXCEPT ![n].ref = @ - 1]

\* node_reclaim: the table's reference goes; a node held elsewhere is
\* unlinked from the table and loses its back pointer.
node_reclaim(nd, n) ==
  IF nd[n].ref = 1 THEN [nd EXCEPT ![n] = FreeCell]
  ELSE [nd EXCEPT ![n].ref = @ - 1, ![n].tab = FALSE]

\* ieee80211_setup_node: the one reference is the table's.
setup_node(nd, n, mac) == [nd EXCEPT ![n] = [ref |-> 1, mac |-> mac, tab |-> TRUE]]

\* ieee80211_find_node, without the reference it adds: None or the node.
Found(nd, mac) ==
  LET hit == {n \in Nodes : nd[n].tab /\ nd[n].mac = mac}
  IN IF hit = {} THEN None ELSE CHOOSE n \in hit : TRUE

\* ieee80211_node_table_reset of ic_scan: each node of the table is reclaimed.
table_reset(nd) ==
  [n \in Nodes |-> IF nd[n].tab THEN node_reclaim(nd, n)[n] ELSE nd[n]]

\* The number of frames of queue q that carry a reference to n.
Carried(q, n) == Cardinality({i \in 1 .. Len(q) : q[i] = n})

\* ieee80211_drain_ifq(&ic->ic_mgtq): each frame gives its reference back.
drain_ifq(nd, q) ==
  [n \in Nodes |-> IF nd[n].ref = Carried(q, n) THEN FreeCell
                   ELSE [nd[n] EXCEPT !.ref = @ - Carried(q, n)]]
-----------------------------------------------------------------------------
(* iwm_tx, iwm_start and the ring resets *)

Idle == todo = <<>>

\* The slots whose frame carries a reference to n.
InFlight(n) == {s \in Rings \X Slots : ring[s[1]][s[2]] = n}

Succ(i) == IF i + 1 = Count THEN 0 ELSE i + 1

\* The oldest frame of ring q that is with the firmware.
Oldest(q) == IF cur[q] >= queued[q] THEN cur[q] - queued[q] ELSE Count + cur[q] - queued[q]

\* Mutant of iwm_tx: marked full only when every slot is taken.
iwm_tx_late(nd, n, q) ==
  /\ node' = nd
  /\ ring' = [ring EXCEPT ![q][cur[q]] = n]
  /\ cur' = [cur EXCEPT ![q] = Succ(@)]
  /\ queued' = [queued EXCEPT ![q] = @ + 1]
  /\ qfullmsk' = IF queued'[q] >= Count THEN qfullmsk \cup {q} ELSE qfullmsk

\* iwm_tx succeeds: the frame takes the slot cur, and the ring is marked full
\* above the high mark.
iwm_tx(nd, n, q) ==
  /\ node' = nd
  /\ ring' = [ring EXCEPT ![q][cur[q]] = n]
  /\ cur' = [cur EXCEPT ![q] = Succ(@)]
  /\ queued' = [queued EXCEPT ![q] = @ + 1]
  /\ qfullmsk' = IF queued'[q] > HiMark THEN qfullmsk \cup {q} ELSE qfullmsk

\* `sendit': the frame goes to ring q, or iwm_tx fails and iwm_start drops
\* the reference.
SendIt(nd, n, q) ==
  \/ iwm_tx(nd, n, q)
  \/ node' = free_node(nd, n) /\ UNCHANGED ringVars

\* iwm_start returns, or was called in vain.
StartEnd ==
  /\ ~Idle /\ Head(todo) = "start"
  /\ \/ if_flags # {"RUNNING"} /\ UNCHANGED if_flags
     \/ if_flags = {"RUNNING"} /\ qfullmsk # {} /\ if_flags' = if_flags \cup {"OACTIVE"}
     \/ /\ if_flags = {"RUNNING"} /\ qfullmsk = {} /\ mgtq = <<>>
        /\ ic_state # "RUN" \/ snd = 0
        /\ UNCHANGED if_flags
  /\ todo' = Tail(todo)
  /\ UNCHANGED <<node, bss, mgtq, snd, ringVars, workVars, hw, history>>

\* One turn of its loop: a management frame first, with the reference it
\* carries; a data frame gets one to ic_bss from ieee80211_find_txnode, given
\* back when ieee80211_classify or ieee80211_encap fails.
StartLoop ==
  /\ ~Idle /\ Head(todo) = "start" /\ if_flags = {"RUNNING"} /\ qfullmsk = {}
  /\ \/ /\ mgtq # <<>> /\ mgtq' = Tail(mgtq)
        /\ SendIt(node, Head(mgtq), BE)
        /\ UNCHANGED snd
     \/ /\ mgtq = <<>> /\ ic_state = "RUN" /\ snd > 0
        /\ snd' = snd - 1
        /\ \/ \E q \in Rings : SendIt(ref_node(node, bss), bss, q)
           \/ UNCHANGED <<node, ringVars>>
        /\ UNCHANGED mgtq
  /\ UNCHANGED <<bss, if_flags, workVars, hw, todo, history>>

\* iwm_stop_device: every ring is emptied.  The frames are freed; the node
\* pointers stay in the slots, where nothing reads them before iwm_tx
\* overwrites them, so their references are lost; IFF_OACTIVE stays too.
ResetRings ==
  /\ ring' = [q \in Rings |-> [i \in Slots |-> None]]
  /\ cur' = [q \in Rings |-> 0] /\ queued' = [q \in Rings |-> 0]
  /\ qfullmsk' = {}
  /\ lost' = [n \in Nodes |-> lost[n] + Cardinality(InFlight(n))]

Wedge == wedged' = IF "OACTIVE" \in if_flags THEN "yes" ELSE wedged

\* Bound: a reset of the BSS is looked at only where its node finds a cell.
RoomForBss == FreshCell(table_reset(drain_ifq(node, mgtq))) # None

-----------------------------------------------------------------------------
(* Handlers: they start when nobody holds the serializer *)

\* ieee80211_add_scan on a beacon from a: a node not in the table is made,
\* if there is memory; one that is there is only updated.
Beacon(a) ==
  /\ Idle /\ hw = "on"
  /\ Found(node, a) = None /\ FreshCell(node) # None
  /\ node' = setup_node(node, FreshCell(node), a)
  /\ UNCHANGED <<bss, mgtq, snd, ringVars, if_flags, workVars, hw, todo, history>>

\* Mutant: the node joined without the reference the lookup adds.
AssociateUnref(a) ==
  /\ Idle /\ Found(node, a) # None
  /\ bss' = Found(node, a)
  /\ node' = free_node(node, bss)
  /\ UNCHANGED <<mgtq, snd, ringVars, if_flags, workVars, hw, todo, history>>

\* freertos_associate and ieee80211_sta_join: the reference of the lookup
\* becomes that of ic_bss and the old one is dropped; AUTH is requested.
Associate(a) ==
  /\ Idle /\ Found(node, a) # None
  /\ bss' = Found(node, a)
  /\ node' = free_node(ref_node(node, Found(node, a)), bss)
  /\ UNCHANGED <<mgtq, snd, ringVars, if_flags, workVars, hw, todo, history>>

\* Mutant: the frame queued without the call of iwm_start.
SendMgmtQuiet(n) ==
  /\ Idle /\ hw = "on" /\ (node[n].tab \/ n = bss) /\ Len(mgtq) < MaxMgt
  /\ mgtq' = Append(mgtq, n) /\ node' = ref_node(node, n)
  /\ UNCHANGED <<bss, snd, ringVars, if_flags, workVars, hw, todo, history>>

\* IEEE80211_SEND_MGMT in answer to a received frame: the frame carries a
\* reference of its own to the node, and iwm_start is called.
SendMgmt(n) ==
  /\ Idle /\ hw = "on" /\ (node[n].tab \/ n = bss) /\ Len(mgtq) < MaxMgt
  /\ mgtq' = Append(mgtq, n) /\ node' = ref_node(node, n)
  /\ todo' = <<"start">>
  /\ UNCHANGED <<bss, snd, ringVars, if_flags, workVars, hw, history>>

\* A data frame from the network stack.
Output ==
  /\ Idle /\ snd < MaxSnd
  /\ snd' = snd + 1 /\ todo' = <<"start">>
  /\ UNCHANGED <<node, bss, mgtq, ringVars, if_flags, workVars, hw, history>>

\* Mutant: the ring opened again with IFF_OACTIVE left set.
TxDoneSilent(q) ==
  /\ Idle /\ hw = "on" /\ queued[q] > 0
  /\ node' = free_node(node, ring[q][Oldest(q)])
  /\ ring' = [ring EXCEPT ![q][Oldest(q)] = None]
  /\ queued' = [queued EXCEPT ![q] = @ - 1]
  /\ qfullmsk' = IF queued'[q] < LoMark THEN qfullmsk \ {q} ELSE qfullmsk
  /\ UNCHANGED <<if_flags, todo>>
  /\ UNCHANGED <<bss, mgtq, snd, cur, workVars, hw, history>>

\* iwm_rx_tx_cmd: the firmware reports the oldest frame of a ring.  Below
\* the low mark the ring is open again; when all are, iwm_start runs.
TxDone(q) ==
  /\ Idle /\ hw = "on" /\ queued[q] > 0
  /\ node' = free_node(node, ring[q][Oldest(q)])
  /\ ring' = [ring EXCEPT ![q][Oldest(q)] = None]
  /\ queued' = [queued EXCEPT ![q] = @ - 1]
  /\ qfullmsk' = IF queued'[q] < LoMark THEN qfullmsk \ {q} ELSE qfullmsk
  /\ IF queued'[q] < LoMark /\ qfullmsk' = {} /\ "OACTIVE" \in if_flags
     THEN if_flags' = if_flags \ {"OACTIVE"} /\ todo' = <<"start">>
     ELSE UNCHANGED <<if_flags, todo>>
  /\ UNCHANGED <<bss, mgtq, snd, cur, workVars, hw, history>>

\* Mutant: a fatal error resets the BSS at once, not on the state worker.
FatalInline ==
  /\ hw = "on" \/ wpc \in {"INIT1", "INIT2"}
  /\ Idle /\ resets < MaxResets /\ RoomForBss
  /\ if_flags' = {} /\ hw' = "off" /\ ResetRings /\ resets' = resets + 1
  /\ ic_state' = "INIT" /\ todo' = <<"reset">>
  /\ UNCHANGED <<node, bss, mgtq, snd, wpc, win, wedged>>

\* iwm_softintr on a fatal error: iwm_stop, which requests INIT.
Fatal ==
  /\ hw = "on" \/ wpc \in {"INIT1", "INIT2"}
  /\ Idle /\ resets < MaxResets
  /\ if_flags' = {} /\ hw' = "off" /\ ResetRings /\ resets' = resets + 1
  /\ UNCHANGED <<node, bss, mgtq, snd, workVars, todo, wedged>>

\* The rest of a handler: the INIT branch of ieee80211_newstate drains the
\* queue and ieee80211_reset_bss starts over with a node of its own.
ResetBss ==
  /\ ~Idle /\ Head(todo) = "reset"
  /\ LET t == table_reset(drain_ifq(node, mgtq))
         c == FreshCell(t)
     IN /\ c # None                    \* IASSERT: RoomForBss saw to it
        /\ bss' = c
        /\ node' = free_node(ref_node(setup_node(t, c, Own), c), bss)
  /\ mgtq' = <<>> /\ todo' = Tail(todo)
  /\ UNCHANGED <<snd, ringVars, if_flags, workVars, hw, history>>

\* iwm_stop at the end of a forced transition.
StopDevice ==
  /\ ~Idle /\ Head(todo) = "stop"
  /\ if_flags' = {} /\ hw' = "off" /\ ResetRings
  /\ todo' = Tail(todo)
  /\ UNCHANGED <<node, bss, mgtq, snd, workVars, wedged, resets>>

-----------------------------------------------------------------------------
(* The state worker: iwm_newstate_cb and iwm_do_newstate *)

WorkerFree == Idle /\ wpc = "idle"

\* The INIT branch of ieee80211_newstate, up to its tail: a farewell to the
\* BSS from ASSOC and RUN, if there is an mbuf for it.
LeaveBss(rest) ==
  /\ ic_state' = "INIT"
  /\ \/ /\ ic_state \in {"ASSOC", "RUN"} /\ Len(mgtq) < MaxMgt
        /\ mgtq' = Append(mgtq, bss) /\ node' = ref_node(node, bss)
        /\ todo' = <<"start", "reset">> \o rest
     \/ todo' = <<"reset">> \o rest /\ UNCHANGED <<mgtq, node>>

\* AUTH, ASSOC or RUN, not backwards: iwm_auth and the like take ic_bss
\* without a reference and sleep while the firmware answers.
WorkerCommand(ns) ==
  /\ WorkerFree /\ hw = "on"
  /\ ns = "AUTH" => ic_state \notin {"ASSOC", "RUN"}
  /\ ns = "ASSOC" => ic_state # "RUN"
  /\ wpc' = ns /\ win' = bss
  /\ UNCHANGED <<node, bss, mgtq, snd, ringVars, if_flags, ic_state, hw, todo, history>>

\* The answers came: the stack's own transition runs, with a frame to ic_bss
\* or a restart of the transmit queue.
WorkerDone ==
  /\ Idle /\ wpc \in {"AUTH", "ASSOC", "RUN"} /\ hw = "on"
  /\ ic_state' = wpc /\ wpc' = "idle" /\ win' = None
  /\ \/ /\ wpc = "AUTH" \/ (wpc = "ASSOC" /\ ic_state = "AUTH")
        /\ Len(mgtq) < MaxMgt
        /\ mgtq' = Append(mgtq, bss) /\ node' = ref_node(node, bss)
        /\ todo' = <<"start">>
     \/ /\ wpc = "RUN" /\ ic_state \in {"SCAN", "ASSOC"} /\ todo' = <<"start">>
        /\ UNCHANGED <<mgtq, node>>
     \/ /\ ~(wpc = "RUN" /\ ic_state \in {"SCAN", "ASSOC"})
        /\ UNCHANGED <<todo, mgtq, node>>
  /\ UNCHANGED <<bss, snd, ringVars, if_flags, hw, history>>

\* A command failed or timed out: the request is dropped.
WorkerFailed ==
  /\ Idle /\ wpc \in {"AUTH", "ASSOC", "RUN"}
  /\ wpc' = "idle" /\ win' = None
  /\ UNCHANGED <<node, bss, mgtq, snd, ringVars, if_flags, ic_state, hw, todo, history>>

\* SCAN from INIT or SCAN: the firmware scans, no frame is sent.
WorkerScan ==
  /\ WorkerFree /\ hw = "on" /\ ic_state \in {"INIT", "SCAN"}
  /\ ic_state' = "SCAN"
  /\ UNCHANGED <<node, bss, mgtq, snd, ringVars, if_flags, wpc, win, hw, todo, history>>

\* A backward request other than INIT: the stack goes to INIT, the device is
\* stopped and started again.
WorkerForce ==
  /\ WorkerFree /\ ic_state \in {"AUTH", "ASSOC", "RUN"}
  /\ RoomForBss /\ resets < MaxResets
  /\ LeaveBss(<<"stop">>)
  /\ wpc' = "UP" /\ resets' = resets + 1
  /\ UNCHANGED <<bss, snd, ringVars, if_flags, win, hw, lost, wedged>>

\* The end of iwm_init: running again, or stopped.
WorkerUp ==
  /\ Idle /\ wpc = "UP" /\ wpc' = "idle"
  /\ \/ if_flags' = {"RUNNING"} /\ hw' = "on"
     \/ UNCHANGED <<if_flags, hw>>
  /\ UNCHANGED <<node, bss, mgtq, snd, ringVars, ic_state, win, todo, history>>

\* INIT from INIT or SCAN, or a stale INIT, goes straight to the stack.
WorkerInit ==
  /\ WorkerFree /\ RoomForBss
  /\ ic_state = "SCAN" \/ (ic_state # "INIT" /\ resets > 0)
  /\ LeaveBss(<<>>)
  /\ UNCHANGED <<bss, snd, ringVars, if_flags, wpc, win, hw, history>>

\* INIT from AUTH, ASSOC or RUN: iwm_stop_device and iwm_init_hw, with
\* IFF_RUNNING as it was.
WorkerRestart ==
  /\ WorkerFree /\ ic_state \in {"AUTH", "ASSOC", "RUN"} /\ resets < MaxResets
  /\ wpc' = "INIT1" /\ hw' = "off" /\ ResetRings /\ Wedge
  /\ resets' = resets + 1
  /\ UNCHANGED <<node, bss, mgtq, snd, if_flags, ic_state, win, todo>>

\* iwm_init_hw stops the device once more between its two firmware images.
WorkerSecondImage ==
  /\ Idle /\ wpc = "INIT1"
  /\ wpc' = "INIT2" /\ ResetRings /\ Wedge
  /\ UNCHANGED <<node, bss, mgtq, snd, if_flags, ic_state, win, hw, todo, resets>>

\* iwm_init_hw is through, or failed: its result is not looked at.
WorkerRestarted ==
  /\ Idle /\ wpc \in {"INIT1", "INIT2"} /\ RoomForBss
  /\ wpc' = "idle"
  /\ \/ wpc = "INIT2" /\ "RUNNING" \in if_flags /\ hw' = "on"
        /\ UNCHANGED <<ringVars, lost, wedged>>
     \/ wpc = "INIT2" /\ hw' = "off" /\ ResetRings /\ Wedge
     \/ wpc = "INIT1" /\ hw' = "off" /\ UNCHANGED <<ringVars, lost, wedged>>
  /\ LeaveBss(<<>>)
  /\ UNCHANGED <<bss, snd, if_flags, win, resets>>
-----------------------------------------------------------------------------
\* After iwm_reg_up: ic_bss is the node of the own address, in the table.
Init ==
  /\ node = [n \in Nodes |-> IF n = 1 THEN [ref |-> 2, mac |-> Own, tab |-> TRUE] ELSE FreeCell]
  /\ bss = 1 /\ mgtq = <<>> /\ snd = 0
  /\ ring = [q \in Rings |-> [i \in Slots |-> None]]
  /\ cur = [q \in Rings |-> 0] /\ queued = [q \in Rings |-> 0] /\ qfullmsk = {}
  /\ if_flags = {"RUNNING"} /\ ic_state = "INIT" /\ wpc = "idle" /\ win = None
  /\ hw = "on" /\ todo = <<>>
  /\ lost = [n \in Nodes |-> 0] /\ wedged = "no" /\ resets = 0

Holder == StartEnd \/ StartLoop \/ ResetBss \/ StopDevice

Worker ==
  \/ \E ns \in {"AUTH", "ASSOC", "RUN"} : WorkerCommand(ns)
  \/ WorkerDone \/ WorkerFailed \/ WorkerScan
  \/ WorkerForce \/ WorkerUp
  \/ WorkerInit \/ WorkerRestart \/ WorkerSecondImage \/ WorkerRestarted

Next ==
  \/ Holder \/ Worker
  \/ \E a \in APs : Beacon(a) \/ Associate(a)
  \/ \E n \in Nodes : SendMgmt(n)
  \/ Output \/ Fatal
  \/ \E q \in Rings : TxDone(q)

Spec == Init /\ [][Next]_vars

\* The thread that holds the serializer goes on; working firmware reports
\* every frame it was given, and the interrupt thread gets the serializer in
\* the end however often others take it first.
FairSpec == Spec /\ WF_vars(Holder) /\ \A q \in Rings : SF_vars(TxDone(q))

-----------------------------------------------------------------------------
(* Properties *)

\* The references to node n: the table's, that of ic_bss, one per frame in
\* ic_mgtq, one per ring slot that points to it.
Holders(n) ==
  (IF node[n].tab THEN 1 ELSE 0) + (IF bss = n THEN 1 ELSE 0)
  + Carried(mgtq, n)
  + Cardinality(InFlight(n))

\* ni_refcnt is the number of pointers that own a reference plus those a
\* reset ring has dropped without ieee80211_free_node: no path of iwm_start,
\* iwm_rx_tx_cmd, ieee80211_sta_join, ieee80211_add_scan or the reset of the
\* BSS drops one too many or forgets another.
RefsExact == \A n \in Nodes : node[n].ref = Holders(n) + lost[n]

\* No pointer outlives its node: not ic_bss, not the node of a queued frame or
\* of one with the firmware, and not the bare ic_bss pointer ("NB: no
\* reference held") with which the state worker sleeps in iwm_auth, although
\* the supplicant may join another BSS meanwhile.  The worker's pointer is
\* safe because ic_bss never leaves the table but on the worker itself.
PointersLive ==
  /\ node[bss].tab
  /\ \A n \in Nodes :
       \/ bss = n \/ win = n
       \/ \E i \in 1 .. Len(mgtq) : mgtq[i] = n
       \/ InFlight(n) # {}
       => node[n].ref > 0

\* No ring holds more than one frame above the high mark, the slot iwm_tx
\* writes next is never that of a frame still with the firmware, and every
\* frame counted has its node: whatever iwm_start, completions and resets do.
RingSound ==
  \A q \in Rings :
    /\ queued[q] <= HiMark + 1 /\ (queued[q] > HiMark => q \in qfullmsk)
    /\ q \in qfullmsk => queued[q] >= LoMark
    /\ ring[q][cur[q]] = None
    /\ {i \in Slots : ring[q][i] # None} =
         {IF cur[q] >= k THEN cur[q] - k ELSE Count + cur[q] - k : k \in 1 .. queued[q]}

\* Nothing waits for nobody: IFF_OACTIVE means a full ring whose completions
\* will clear it, and a management frame is left in ic_mgtq only behind
\* IFF_OACTIVE or a stopped interface; the exception is a reset of the rings
\* that finds IFF_OACTIVE set.
NoStall ==
  /\ "OACTIVE" \in if_flags /\ wedged = "no" => qfullmsk # {}
  /\ Idle /\ mgtq # <<>> => if_flags # {"RUNNING"}

\* IFF_OACTIVE does not last while the firmware works: the completions bring
\* the ring below the low mark and iwm_rx_tx_cmd opens the queue again.
BackpressureEnds ==
  []<>("OACTIVE" \notin if_flags \/ hw = "off" \/ wedged = "yes")
-----------------------------------------------------------------------------
(* What comments in the sources lead one to expect and the code does not   *)
(* keep: TLC finds a behaviour against each (see README).                  *)

\* "If the frame is successfully dispatched to the driver, then it is
\* responsible for freeing the reference": no reference is lost.
ReferencesFreed == \A n \in Nodes : lost[n] = 0

\* "need to send management frames even if we're not RUNning": an interface
\* that refuses frames has a full ring that will drain.
OactiveHasCause == "OACTIVE" \in if_flags => qfullmsk # {}
=============================================================================
