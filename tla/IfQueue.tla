------------------------------- MODULE IfQueue -------------------------------
(***************************************************************************)
(* The interface output queue if_snd: the singly linked mbuf list of       *)
(* compat/netbsd/net/if.h, one load or store at a time.  Producer threads  *)
(* queue frames (wlan_port_xmit_iwm, wlan_port_xmit_urtwn) and then drain  *)
(* the queue through if_start; a completion worker drains it too.          *)
(*                                                                         *)
(* Locked tells the drivers apart.  iwm publishes a frame with the         *)
(* serializer held and its completions run under it; urtwn publishes       *)
(* before taking it and drains from urtwn_txeof without it.  The           *)
(* serializer is recursive, so iwm's second acquisition inside             *)
(* if_start_lock is no step of its own.                                    *)
(***************************************************************************)
EXTENDS Naturals, Sequences, FiniteSets

CONSTANTS
  Producers,   \* threads that transmit
  Drainer,     \* the worker that runs completions
  Locked,      \* TRUE: iwm; FALSE: urtwn
  MaxFrames    \* bound: frames a producer sends

ASSUME ConstantsAssumption ==
  Drainer \notin Producers /\ Locked \in BOOLEAN /\ MaxFrames \in Nat

VARIABLES
  ifq_head, ifq_tail,   \* first and last frame, Null when there is none
  nextpkt,              \* m_nextpkt of each frame
  ser,                  \* holder of the serializer
  pc,                   \* where a thread is
  reg,                  \* the tail a producer read
  m,                    \* the frame a thread enqueues or dequeues
  count,                \* frames each producer has begun to send
  queued,               \* history: frames in the order they were published
  sent                  \* history: frames in the order they were dequeued

vars == <<ifq_head, ifq_tail, nextpkt, ser, pc, reg, m, count, queued, sent>>

Null == <<>>
Threads == Producers \cup {Drainer}
Frames == Producers \X (1 .. MaxFrames)

Goto(t, l) == pc' = [pc EXCEPT ![t] = l]

-----------------------------------------------------------------------------
(* Taking and leaving the serializer. *)

\* wlan_port_xmit_*: a frame of the network stack.
Xmit(t) ==
  /\ t \in Producers /\ pc[t] = "idle" /\ count[t] < MaxFrames
  /\ count' = [count EXCEPT ![t] = @ + 1]
  /\ m' = [m EXCEPT ![t] = <<t, count[t] + 1>>]
  /\ Goto(t, IF Locked THEN "lock" ELSE "enqueue")
  /\ UNCHANGED <<ifq_head, ifq_tail, nextpkt, ser, reg, queued, sent>>

\* A completion: iwm's softint worker locks first, urtwn's URB worker does not.
Completion(t) ==
  /\ t = Drainer /\ pc[t] = "idle" /\ ifq_head # Null
  /\ Goto(t, IF Locked THEN "lock" ELSE "dequeue")
  /\ UNCHANGED <<ifq_head, ifq_tail, nextpkt, ser, reg, m, count, queued, sent>>

Lock(t) ==
  /\ pc[t] \in {"lock", "startlock"}
  /\ ser = Null
  /\ ser' = <<t>>
  /\ Goto(t, IF pc[t] = "lock" /\ t \in Producers THEN "enqueue" ELSE "dequeue")
  /\ UNCHANGED <<ifq_head, ifq_tail, nextpkt, reg, m, count, queued, sent>>

Unlock(t) ==
  /\ pc[t] = "done"
  /\ ser' = IF ser = <<t>> THEN Null ELSE ser
  /\ Goto(t, "idle")
  /\ UNCHANGED <<ifq_head, ifq_tail, nextpkt, reg, m, count, queued, sent>>

-----------------------------------------------------------------------------
(* IFQ_ENQUEUE *)

\* Mutant: iwm's transmit releases the serializer before the frame is linked.
EnqueueUnlocked(t) ==
  /\ pc[t] = "enqueue"
  /\ nextpkt' = [nextpkt EXCEPT ![m[t]] = Null]
  /\ reg' = [reg EXCEPT ![t] = ifq_tail]
  /\ ser' = IF ser = <<t>> THEN Null ELSE ser
  /\ Goto(t, "link")
  /\ UNCHANGED <<ifq_head, ifq_tail, m, count, queued, sent>>

\* Clear m_nextpkt and read the tail.
Enqueue(t) ==
  /\ pc[t] = "enqueue"
  /\ nextpkt' = [nextpkt EXCEPT ![m[t]] = Null]
  /\ reg' = [reg EXCEPT ![t] = ifq_tail]
  /\ Goto(t, "link")
  /\ UNCHANGED <<ifq_head, ifq_tail, ser, m, count, queued, sent>>

\* Hook the frame behind the tail that was read, or make it the head.
LinkFrame(t) ==
  /\ pc[t] = "link"
  /\ IF reg[t] # Null
     THEN nextpkt' = [nextpkt EXCEPT ![reg[t]] = m[t]] /\ UNCHANGED ifq_head
     ELSE ifq_head' = m[t] /\ UNCHANGED nextpkt
  /\ Goto(t, "publish")
  /\ UNCHANGED <<ifq_tail, ser, reg, m, count, queued, sent>>

\* It is the tail from now on; if_start_lock follows.
Publish(t) ==
  /\ pc[t] = "publish"
  /\ ifq_tail' = m[t]
  /\ queued' = Append(queued, m[t])
  /\ m' = [m EXCEPT ![t] = Null] /\ reg' = [reg EXCEPT ![t] = Null]
  /\ Goto(t, IF Locked THEN "dequeue" ELSE "startlock")
  /\ UNCHANGED <<ifq_head, nextpkt, ser, count, sent>>

-----------------------------------------------------------------------------
(* IFQ_DEQUEUE, in the loop of the drivers' start routines *)

\* Mutant: the tail is not reset with the last frame.
UnlinkKeepTail(t) ==
  /\ pc[t] = "unlink"
  /\ ifq_head' = nextpkt[m[t]]
  /\ Goto(t, "clear")
  /\ UNCHANGED <<ifq_tail, nextpkt, ser, reg, m, count, queued, sent>>

\* Read the head; an empty queue ends the loop.
Dequeue(t) ==
  /\ pc[t] = "dequeue"
  /\ m' = [m EXCEPT ![t] = ifq_head]
  /\ Goto(t, IF ifq_head = Null THEN "done" ELSE "unlink")
  /\ UNCHANGED <<ifq_head, ifq_tail, nextpkt, ser, reg, count, queued, sent>>

\* Advance the head.
Unlink(t) ==
  /\ pc[t] = "unlink"
  /\ ifq_head' = nextpkt[m[t]]
  /\ Goto(t, IF ifq_head' = Null THEN "reset" ELSE "clear")
  /\ UNCHANGED <<ifq_tail, nextpkt, ser, reg, m, count, queued, sent>>

\* The queue has run empty.
ResetTail(t) ==
  /\ pc[t] = "reset"
  /\ ifq_tail' = Null
  /\ Goto(t, "clear")
  /\ UNCHANGED <<ifq_head, nextpkt, ser, reg, m, count, queued, sent>>

\* The frame is the driver's.
Clear(t) ==
  /\ pc[t] = "clear"
  /\ nextpkt' = [nextpkt EXCEPT ![m[t]] = Null]
  /\ sent' = Append(sent, m[t])
  /\ m' = [m EXCEPT ![t] = Null]
  /\ Goto(t, "dequeue")
  /\ UNCHANGED <<ifq_head, ifq_tail, ser, reg, count, queued>>

-----------------------------------------------------------------------------

Init ==
  /\ ifq_head = Null /\ ifq_tail = Null
  /\ nextpkt = [f \in Frames |-> Null]
  /\ ser = Null
  /\ pc = [t \in Threads |-> "idle"]
  /\ reg = [t \in Threads |-> Null] /\ m = [t \in Threads |-> Null]
  /\ count = [t \in Producers |-> 0]
  /\ queued = <<>> /\ sent = <<>>

Steps(t) ==
  \/ Lock(t) \/ Unlock(t) \/ Enqueue(t) \/ LinkFrame(t) \/ Publish(t)
  \/ Dequeue(t) \/ Unlink(t) \/ ResetTail(t) \/ Clear(t)

Next == \E t \in Threads : Xmit(t) \/ Completion(t) \/ Steps(t)

Spec == Init /\ [][Next]_vars

\* A thread that can run does, and the serializer reaches whoever waits for it.
FairSpec == Spec /\ \A t \in Threads : WF_vars(Steps(t)) /\ SF_vars(Lock(t))

-----------------------------------------------------------------------------
(* Properties *)

\* The types.
TypeOK ==
  /\ ifq_head \in Frames \cup {Null} /\ ifq_tail \in Frames \cup {Null}
  /\ nextpkt \in [Frames -> Frames \cup {Null}]
  /\ ser \in {<<t>> : t \in Threads} \cup {Null}
  /\ pc \in [Threads -> {"idle", "lock", "startlock", "enqueue", "link", "publish", "dequeue",
                         "unlink", "reset", "clear", "done"}]
  /\ reg \in [Threads -> Frames \cup {Null}] /\ m \in [Threads -> Frames \cup {Null}]
  /\ count \in [Producers -> 0 .. MaxFrames]
  /\ queued \in Seq(Frames) /\ sent \in Seq(Frames) /\ Len(sent) <= Len(queued)

\* The frames that were published and not taken yet, oldest first.
Backlog == SubSeq(queued, Len(sent) + 1, Len(queued))

Resting == \A t \in Threads : pc[t] \in {"idle", "lock", "startlock", "dequeue", "enqueue", "done"}

\* Between operations the list is exactly the frames published and not yet
\* dequeued, in order, and the tail is the last of them: an enqueue and a
\* dequeue on different threads never leave a frame that the head does not
\* reach, nor a tail that is not in the list.
ListIsBacklog ==
  Resting =>
    LET b == Backlog IN
      /\ ifq_head = IF b = <<>> THEN Null ELSE b[1]
      /\ ifq_tail = IF b = <<>> THEN Null ELSE b[Len(b)]
      /\ \A i \in 1 .. Len(b) : nextpkt[b[i]] = IF i = Len(b) THEN Null ELSE b[i + 1]

\* Frames leave in the order they were published, each once.
FifoOrder == \A i \in 1 .. Len(sent) : i <= Len(queued) /\ sent[i] = queued[i]

\* The invariants together: the list is the backlog in every resting state
\* and what has left it is the front of what entered it.
QueueInv == TypeOK /\ ListIsBacklog /\ FifoOrder

\* A frame handed to the transmit function is eventually taken by the driver.
FramesLeave ==
  \A p \in Producers : \A k \in 1 .. MaxFrames :
    (count[p] = k) ~> (\E i \in 1 .. Len(sent) : sent[i] = <<p, k>>)

=============================================================================
