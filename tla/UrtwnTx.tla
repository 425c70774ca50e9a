------------------------------- MODULE UrtwnTx -------------------------------
(***************************************************************************)
(* The transmit path of the urtwn driver over the asynchronous bulk        *)
(* transfers of the USB shim.                                              *)
(*                                                                         *)
(* Sender threads (the network stack, the supplicant, the command worker)  *)
(* queue a frame and run urtwn_start under the serializer.  The transfers  *)
(* complete in the host controller's interrupt, which puts them into a     *)
(* bounded ring; the URB worker takes them out and runs urtwn_txeof, which *)
(* calls urtwn_start again WITHOUT the serializer, or urtwn_rxeof, whose   *)
(* frame may make the stack answer with a management frame.                *)
(*                                                                         *)
(* The interface is up and associated throughout; nothing stops the        *)
(* interface once it runs.  A queue is its length; a queue operation is    *)
(* one step (IfQueue looks inside).  The pipes are those of                *)
(* urtwn_open_pipes: pipe 0 carries management frames, the last one data.  *)
(***************************************************************************)
EXTENDS Naturals, Sequences, FiniteSets

CONSTANTS
  Senders,       \* threads that transmit
  NTx,           \* tx_npipe: number of bulk-out pipes
  ListCount,     \* URTWN_TX_LIST_COUNT: tx_data of a pipe
  RingSize,      \* USBD_SHIM_RING
  MaxFrames,     \* bound: frames ever queued
  Failures       \* what may go wrong: subset of {"node", "key", "submit", "xfer", "stall"}

Urbw == "urbw"

ASSUME ConstantsAssumption ==
  /\ IsFiniteSet(Senders) /\ Urbw \notin Senders
  /\ NTx \in Nat \ {0} /\ ListCount \in Nat \ {0} /\ RingSize \in Nat /\ MaxFrames \in Nat
  /\ Failures \subseteq {"node", "key", "submit", "xfer", "stall"}

VARIABLES
  mgtq,       \* frames in ic_mgtq
  snd,        \* frames in if_snd
  free,       \* tx_free_list of each pipe
  oactive,    \* IFF_OACTIVE
  flying,     \* transfers the host controller has
  ring,       \* completion ring: <<xfer, status>>
  lost,       \* history: completions that found the ring full
  ser,        \* holder of the serializer
  pc, qof, data, \* thread: where it is, the queue it polled, the tx_data it holds
  status,     \* URB worker: status of the transfer it handles
  rx,         \* URB worker: the receive transfer it handles
  fed,        \* frames queued so far
  fault       \* history: a "null" frame was used, a tx_data of a frame without
              \* a "key" was put back twice

vars == <<mgtq, snd, free, oactive, flying, ring, lost, ser, pc, qof, data, status, rx, fed, fault>>

Threads == Senders \cup {Urbw}
Pipes == 0 .. NTx - 1
TxData == Pipes \X (1 .. ListCount)
Rx == <<NTx, 1>>                       \* the one transfer of the receive pipe
Xfers == TxData \cup {Rx}
None == <<>>

\* The mapping of access categories to pipes: voice to 0, best effort to the last.
ac2idx(q) == IF q = "mgt" THEN 0 ELSE NTx - 1

-----------------------------------------------------------------------------
(* The USB shim. *)

\* Mutant: off by one in the bound.
RingPostShort(x, st) ==
  IF Len(ring) + 1 < RingSize
  THEN ring' = Append(ring, <<x, st>>) /\ UNCHANGED lost
  ELSE UNCHANGED ring /\ lost' = lost \cup {x}

\* usbd_ring_post: a completion that finds the ring full is not recorded.
RingPost(x, st) ==
  IF Len(ring) < RingSize
  THEN ring' = Append(ring, <<x, st>>) /\ UNCHANGED lost
  ELSE UNCHANGED ring /\ lost' = lost \cup {x}

\* usbd_transfer: handed to the controller, or its refusal posted as a completion.
Transfer(x) ==
  \/ flying' = flying \cup {x} /\ UNCHANGED <<ring, lost>>
  \/ "submit" \in Failures /\ RingPost(x, "error") /\ UNCHANGED flying

\* usbd_shim_urb_complete in the interrupt.
Complete(x) ==
  /\ x \in flying
  /\ flying' = flying \ {x}
  /\ \E st \in {"ok"} \cup (IF "xfer" \in Failures THEN {"error"} ELSE {})
                      \cup (IF "stall" \in Failures THEN {"stalled"} ELSE {}) :
       RingPost(x, st)
  /\ UNCHANGED <<mgtq, snd, free, oactive, ser, pc, qof, data, status, rx, fed, fault>>

-----------------------------------------------------------------------------
(* urtwn_start *)

Goto(t, l) == pc' = [pc EXCEPT ![t] = l]

Put(d) == free' = [free EXCEPT ![d[1]] = Append(@, d)]

\* Mutant: the tx_data stays on the list.
GetTxDataKeeps(t) ==
  /\ pc[t] = "get"
  /\ LET p == ac2idx(qof[t])
     IN IF free[p] = <<>>
        THEN Goto(t, "full") /\ UNCHANGED <<free, data>>
        ELSE /\ data' = [data EXCEPT ![t] = Head(free[p])]
             /\ UNCHANGED free
             /\ Goto(t, "dequeue")
  /\ UNCHANGED <<mgtq, snd, oactive, flying, ring, lost, ser, qof, status, rx, fed, fault>>

\* if_start_lock takes the serializer.
Lock(t) ==
  /\ pc[t] = "lock"
  /\ ser = "none"
  /\ ser' = t
  /\ Goto(t, "start")
  /\ UNCHANGED <<mgtq, snd, free, oactive, flying, ring, lost, qof, data, status, rx, fed, fault>>

\* The test on entry.
Start(t) ==
  /\ pc[t] = "start"
  /\ Goto(t, IF oactive THEN "return" ELSE "poll")
  /\ UNCHANGED <<mgtq, snd, free, oactive, flying, ring, lost, ser, qof, data, status, rx, fed, fault>>

\* Management frames first.
Poll(t) ==
  /\ pc[t] = "poll"
  /\ IF mgtq = 0 /\ snd = 0
     THEN Goto(t, "return") /\ UNCHANGED qof
     ELSE /\ qof' = [qof EXCEPT ![t] = IF mgtq > 0 THEN "mgt" ELSE "snd"]
          /\ Goto(t, "get")
  /\ UNCHANGED <<mgtq, snd, free, oactive, flying, ring, lost, ser, data, status, rx, fed, fault>>

\* urtwn_get_tx_data, under sc_tx_mtx.
GetTxData(t) ==
  /\ pc[t] = "get"
  /\ LET p == ac2idx(qof[t])
     IN IF free[p] = <<>>
        THEN Goto(t, "full") /\ UNCHANGED <<free, data>>
        ELSE /\ data' = [data EXCEPT ![t] = Head(free[p])]
             /\ free' = [free EXCEPT ![p] = Tail(@)]
             /\ Goto(t, "dequeue")
  /\ UNCHANGED <<mgtq, snd, oactive, flying, ring, lost, ser, qof, status, rx, fed, fault>>

\* No tx_data: wait for a completion.
SetOactive(t) ==
  /\ pc[t] = "full"
  /\ oactive' = TRUE
  /\ Goto(t, "return")
  /\ UNCHANGED <<mgtq, snd, free, flying, ring, lost, ser, qof, data, status, rx, fed, fault>>

\* Take the frame polled before; nothing is left when another thread took it.
Dequeue(t) ==
  /\ pc[t] = "dequeue"
  /\ IF (IF qof[t] = "mgt" THEN mgtq ELSE snd) = 0
     THEN fault' = fault \cup {"null"} /\ Goto(t, "dead") /\ UNCHANGED <<mgtq, snd>>
     ELSE /\ IF qof[t] = "mgt" THEN mgtq' = mgtq - 1 /\ UNCHANGED snd
                               ELSE snd' = snd - 1 /\ UNCHANGED mgtq
          /\ Goto(t, "tx")
          /\ UNCHANGED fault
  /\ UNCHANGED <<free, oactive, flying, ring, lost, ser, qof, data, status, rx, fed>>

\* No transmit node, or ieee80211_encap fails: the tx_data goes back.
Drop(t) ==
  /\ pc[t] = "tx" /\ qof[t] = "snd" /\ "node" \in Failures
  /\ Put(data[t])
  /\ data' = [data EXCEPT ![t] = None]
  /\ Goto(t, "poll")
  /\ UNCHANGED <<mgtq, snd, oactive, flying, ring, lost, ser, qof, status, rx, fed, fault>>

\* urtwn_tx when ieee80211_crypto_encap fails: it puts the tx_data back, and
\* so does its caller, and both free the mbuf.  What the thread does after
\* that is undefined: it takes no further step.
KeyMissing(t) ==
  /\ pc[t] = "tx" /\ "key" \in Failures
  /\ fault' = fault \cup {"key"}
  /\ LET d == data[t] IN free' = [free EXCEPT ![d[1]] = @ \o <<d, d>>]
  /\ data' = [data EXCEPT ![t] = None]
  /\ Goto(t, "dead")
  /\ UNCHANGED <<mgtq, snd, oactive, flying, ring, lost, ser, qof, status, rx, fed>>

\* urtwn_tx hands the frame to the shim.
Tx(t) ==
  /\ pc[t] = "tx"
  /\ Transfer(data[t])
  /\ data' = [data EXCEPT ![t] = None]
  /\ Goto(t, "poll")
  /\ UNCHANGED <<mgtq, snd, free, oactive, ser, qof, status, rx, fed, fault>>

\* Back from urtwn_start: a thread that came through if_start_lock unlocks.
\* The URB worker that answered a received frame goes on to re-arm it.
Return(t) ==
  /\ pc[t] = "return"
  /\ ser' = IF ser = t THEN "none" ELSE ser
  /\ Goto(t, IF t = Urbw /\ rx # None THEN "resubmit" ELSE "idle")
  /\ qof' = [qof EXCEPT ![t] = "none"]
  /\ UNCHANGED <<mgtq, snd, free, oactive, flying, ring, lost, data, status, rx, fed, fault>>

-----------------------------------------------------------------------------
(* The threads that send. *)

\* wlan_port_xmit_urtwn: the data frame is queued before the lock is taken.
Xmit(t) ==
  /\ pc[t] = "idle" /\ fed < MaxFrames
  /\ snd' = snd + 1 /\ fed' = fed + 1
  /\ Goto(t, "lock")
  /\ UNCHANGED <<mgtq, free, oactive, flying, ring, lost, ser, qof, data, status, rx, fault>>

\* ieee80211_mgmt_output, by a sender or for a frame the URB worker received.
MgmtOutput(t) ==
  /\ pc[t] = (IF t = Urbw THEN "input" ELSE "idle") /\ fed < MaxFrames
  /\ mgtq' = mgtq + 1 /\ fed' = fed + 1
  /\ Goto(t, "lock")
  /\ UNCHANGED <<snd, free, oactive, flying, ring, lost, ser, qof, data, status, rx, fault>>

-----------------------------------------------------------------------------
(* The URB worker. *)

\* Mutant: the buffer is dropped when the transfer failed.
TxPutOnSuccess ==
  /\ pc[Urbw] = "txeof"
  /\ IF status = "ok" THEN Put(data[Urbw]) ELSE UNCHANGED free
  /\ data' = [data EXCEPT ![Urbw] = None]
  /\ Goto(Urbw, "clear")
  /\ UNCHANGED <<mgtq, snd, oactive, flying, ring, lost, ser, qof, status, rx, fed, fault>>

\* wlan_urb_worker_loop: take the oldest completion.
UrbTake ==
  /\ pc[Urbw] = "idle" /\ ring # <<>>
  /\ ring' = Tail(ring)
  /\ LET x == Head(ring)[1] IN
       /\ status' = Head(ring)[2]
       /\ IF x = Rx
          THEN rx' = x /\ UNCHANGED data
          ELSE data' = [data EXCEPT ![Urbw] = x] /\ UNCHANGED rx
       /\ Goto(Urbw, IF x # Rx THEN "txeof"
                     ELSE IF Head(ring)[2] = "ok" THEN "input"
                     ELSE IF Head(ring)[2] = "stalled" THEN "rxdone"
                     ELSE "resubmit")
  /\ UNCHANGED <<mgtq, snd, free, oactive, flying, lost, ser, qof, fed, fault>>

\* urtwn_txeof: the buffer goes back ...
TxPut ==
  /\ pc[Urbw] = "txeof"
  /\ Put(data[Urbw])
  /\ data' = [data EXCEPT ![Urbw] = None]
  /\ Goto(Urbw, "clear")
  /\ UNCHANGED <<mgtq, snd, oactive, flying, ring, lost, ser, qof, status, rx, fed, fault>>

\* ... then the flag is cleared, and after a success urtwn_start runs, unlocked.
TxClear ==
  /\ pc[Urbw] = "clear"
  /\ oactive' = FALSE
  /\ Goto(Urbw, IF status = "ok" THEN "start" ELSE "idle")
  /\ status' = "none"
  /\ UNCHANGED <<mgtq, snd, free, flying, ring, lost, ser, qof, data, rx, fed, fault>>

\* urtwn_rxeof with a frame the stack does not answer.
RxInput ==
  /\ pc[Urbw] = "input"
  /\ Goto(Urbw, "resubmit")
  /\ UNCHANGED <<mgtq, snd, free, oactive, flying, ring, lost, ser, qof, data, status, rx, fed, fault>>

\* The resubmit label of urtwn_rxeof.
RxResubmit ==
  /\ pc[Urbw] = "resubmit"
  /\ Transfer(rx)
  /\ rx' = None /\ status' = "none"
  /\ Goto(Urbw, "idle")
  /\ UNCHANGED <<mgtq, snd, free, oactive, ser, qof, data, fed, fault>>

\* The early return of urtwn_rxeof: a stalled transfer is not submitted again.
RxStalled ==
  /\ pc[Urbw] = "rxdone"
  /\ rx' = None /\ status' = "none"
  /\ Goto(Urbw, "idle")
  /\ UNCHANGED <<mgtq, snd, free, oactive, flying, ring, lost, ser, qof, data, fed, fault>>

-----------------------------------------------------------------------------
(* urtwn_init: the lists filled, the receive transfer queued. *)

Init ==
  /\ mgtq = 0 /\ snd = 0 /\ fed = 0
  /\ free = [p \in Pipes |-> [i \in 1 .. ListCount |-> <<p, i>>]]
  /\ oactive = FALSE
  /\ flying = {Rx} /\ ring = <<>> /\ lost = {}
  /\ ser = "none"
  /\ pc = [t \in Threads |-> "idle"] /\ qof = [t \in Threads |-> "none"]
  /\ data = [t \in Threads |-> None]
  /\ status = "none" /\ rx = None /\ fault = {}

StartSteps(t) ==
  \/ Lock(t) \/ Start(t) \/ Poll(t) \/ GetTxData(t) \/ SetOactive(t) \/ Dequeue(t)
  \/ Drop(t) \/ KeyMissing(t) \/ Tx(t) \/ Return(t)

UrbSteps == UrbTake \/ TxPut \/ TxClear \/ RxInput \/ RxResubmit \/ RxStalled

Next ==
  \/ \E t \in Threads : StartSteps(t)
  \/ \E t \in Senders : Xmit(t)
  \/ \E t \in Threads : MgmtOutput(t)
  \/ UrbSteps
  \/ \E x \in Xfers : Complete(x)

Spec == Init /\ [][Next]_vars

\* Threads that can run do, the serializer is handed on, and the controller
\* completes what it was given.
FairSpec ==
  /\ Spec
  /\ \A t \in Threads : WF_vars(StartSteps(t)) /\ SF_vars(Lock(t))
  /\ WF_vars(UrbSteps)
  /\ \A x \in Xfers : WF_vars(Complete(x))

-----------------------------------------------------------------------------
(* Properties *)

\* The types.
TypeOK ==
  /\ mgtq \in 0 .. MaxFrames /\ snd \in 0 .. MaxFrames /\ fed \in 0 .. MaxFrames
  /\ free \in [Pipes -> Seq(TxData)]
  /\ oactive \in BOOLEAN /\ fault \subseteq {"null", "key"}
  /\ flying \subseteq Xfers /\ lost \subseteq Xfers
  /\ ring \in Seq(Xfers \X {"ok", "error", "stalled"}) /\ Len(ring) <= RingSize
  /\ ser \in Threads \cup {"none"}
  /\ pc \in [Threads -> {"idle", "lock", "start", "poll", "get", "full", "dequeue", "tx",
                         "return", "dead", "txeof", "clear", "input", "resubmit", "rxdone"}]
  /\ qof \in [Threads -> {"none", "mgt", "snd"}]
  /\ data \in [Threads -> TxData \cup {None}]
  /\ status \in {"none", "ok", "error", "stalled"} /\ rx \in {None, Rx}

Times(s, d) == Cardinality({i \in 1 .. Len(s) : s[i] = d})

\* How many times a tx_data is accounted for: on its free list, in the
\* hands of a thread, with the controller, in the ring, or lost.
Homes(d) ==
    Times(free[d[1]], d)
  + Cardinality({t \in Threads : data[t] = d})
  + Cardinality({i \in 1 .. Len(ring) : ring[i][1] = d})
  + Cardinality({d} \cap flying) + Cardinality({d} \cap lost)

\* Every tx_data has one home, whatever urtwn_tx meets.
BuffersBack == \A d \in TxData : Homes(d) = 1

\* A tx_data is in exactly one place at any time: two threads in
\* urtwn_start, the interrupt and the URB worker never share one, never
\* return one twice and never forget one, until a frame has no key.
OneHome == "key" \notin fault => BuffersBack

\* With the types: what every thread may assume of a tx_data it holds.
TxDataInv == TypeOK /\ OneHome

\* No completion is dropped, as long as the ring has room for every
\* transfer the driver owns.
NoCompletionLost == lost = {}

\* A frame handed to the shim gives its tx_data back: whatever the outcome
\* of the transfer, the buffer returns to the free list (unless the driver
\* has met one of its two faults before).
TxReclaimed ==
  \A d \in TxData : (d \in flying) ~> (fault # {} \/ Times(free[d[1]], d) = 1)

-----------------------------------------------------------------------------
(* What comments in the sources lead one to expect and the code does not   *)
(* keep: TLC finds a behaviour against each (see README).                  *)

\* The frame urtwn_start polled is still there when it is dequeued.
NoNullFrame == "null" \notin fault

Quiet == \A t \in Threads : pc[t] \in {"idle", "lock"}

\* IFF_OACTIVE stands for a transfer whose completion will clear it: it is
\* not left set when every tx_data is back and nobody is in urtwn_start.
OactiveHonest ==
  oactive /\ Quiet /\ ring = <<>> => \E d \in TxData : d \in flying

\* The receive transfer stays armed: it is with the controller, in the
\* ring or with the worker.
RxArmed == Rx \in flying \/ rx = Rx \/ \E i \in 1 .. Len(ring) : ring[i][1] = Rx

=============================================================================
