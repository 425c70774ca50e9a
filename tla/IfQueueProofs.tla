---------------------------- MODULE IfQueueProofs ----------------------------
(***************************************************************************)
(* Proofs about IfQueue: under the serializer, as iwm uses the queue, the  *)
(* linked list is the backlog and a FIFO, for any number of producers and  *)
(* of frames.                                                              *)
(***************************************************************************)
EXTENDS IfQueue, TLAPS

Labels == {"idle", "lock", "startlock", "enqueue", "link", "publish", "dequeue", "unlink",
           "reset", "clear", "done"}
Inside == {"enqueue", "link", "publish", "dequeue", "unlink", "reset", "clear", "done"}

Types ==
  /\ ifq_head \in Frames \cup {Null} /\ ifq_tail \in Frames \cup {Null}
  /\ nextpkt \in [Frames -> Frames \cup {Null}]
  /\ reg \in [Threads -> Frames \cup {Null}] /\ m \in [Threads -> Frames \cup {Null}]
  /\ queued \in Seq(Frames) /\ sent \in Seq(Frames)
Control ==
  /\ pc \in [Threads -> Labels] /\ ser \in {<<t>> : t \in Threads} \cup {Null}
  /\ count \in [Producers -> 0 .. MaxFrames]

\* One thread at a time, and only producers enqueue.
Exclusive ==
  \A t \in Threads :
    /\ pc[t] \in Inside <=> ser = <<t>>
    /\ pc[t] # "startlock"
    /\ pc[t] \in {"enqueue", "link", "publish"} => t \in Producers

\* A frame that is about to enter has not been in the queue, and none enters
\* twice.
Pending(t) == t \in Producers /\ pc[t] \in {"lock", "enqueue", "link", "publish"}
Carries == \A t \in Threads : Pending(t) => m[t] = <<t, count[t]>>
Old(f) == f[2] <= count[f[1]] /\ (Pending(f[1]) => f[2] < count[f[1]])
AllOld == \A i \in 1 .. Len(queued) : Old(queued[i])
Distinct == \A i, j \in 1 .. Len(queued) : queued[i] = queued[j] => i = j
Fresh == Carries /\ AllOld /\ Distinct

\* The list from the lo-th published frame on, the last one linked to e.
First == Len(sent) + 1
HeadAt(lo, e) == ifq_head = IF lo > Len(queued) THEN e ELSE queued[lo]
TailAt(lo) == ifq_tail = IF lo > Len(queued) THEN Null ELSE queued[Len(queued)]
Chain(lo, e) ==
  \A i \in lo .. Len(queued) :
    nextpkt[queued[i]] = IF i = Len(queued) THEN e ELSE queued[i + 1]
Whole == HeadAt(First, Null) /\ TailAt(First) /\ Chain(First, Null)

\* What the list looks like while a thread is at label l of an operation.
ListWhile(t, l) ==
  CASE l = "link" -> Whole /\ reg[t] = ifq_tail /\ nextpkt[m[t]] = Null
    [] l = "publish" -> /\ HeadAt(First, m[t]) /\ TailAt(First) /\ Chain(First, m[t])
                        /\ nextpkt[m[t]] = Null
    [] l = "unlink" -> Whole /\ First <= Len(queued) /\ m[t] = queued[First]
    [] l = "reset" -> /\ First = Len(queued) /\ m[t] = queued[First]
                      /\ ifq_head = Null
    [] l = "clear" -> /\ First <= Len(queued) /\ m[t] = queued[First]
                      /\ HeadAt(First + 1, Null) /\ TailAt(First + 1) /\ Chain(First + 1, Null)
    [] OTHER -> TRUE

Listed ==
  /\ Resting => Whole
  /\ \A t \in Threads : ListWhile(t, pc[t])

Order == Len(sent) <= Len(queued) /\ FifoOrder

Inv == Types /\ Control /\ Exclusive /\ Fresh /\ Listed /\ Order

-----------------------------------------------------------------------------

\* No frame is the null pointer.
LEMMA NullNoFrame == Null \notin Frames
  BY DEF Null, Frames

\* Nor is any pair.
LEMMA NullNoPair == \A a, b : <<a, b>> # Null
  BY DEF Null

\* Every step is a step of one thread that moves only itself.
LEMMA Moves ==
  ASSUME Control, NEW t \in Threads, Xmit(t) \/ Completion(t) \/ Steps(t)
  PROVE  \E l \in Labels : /\ pc' = [pc EXCEPT ![t] = l] /\ pc'[t] = l
                           /\ \A u \in Threads : u # t => pc'[u] = pc[u]
<1>1. PICK l \in Labels : pc' = [pc EXCEPT ![t] = l]
  BY DEF Xmit, Completion, Steps, Lock, Unlock, Enqueue, LinkFrame, Publish, Dequeue, Unlink,
         ResetTail, Clear, Goto, Labels
<1>2. QED
  BY <1>1, Zenon DEF Control

\* The serializer excludes the others.
LEMMA ControlStep ==
  ASSUME Locked = TRUE, Control, Exclusive, NEW t \in Threads,
         Xmit(t) \/ Completion(t) \/ Steps(t)
  PROVE  Control' /\ Exclusive'
<1>1. PICK l \in Labels : /\ pc' = [pc EXCEPT ![t] = l] /\ pc'[t] = l
                          /\ \A u \in Threads : u # t => pc'[u] = pc[u]
  BY Moves
<1>2. pc' \in [Threads -> Labels]
  BY <1>1 DEF Control
<1>3. count' \in [Producers -> 0 .. MaxFrames]
  <2>1. CASE Xmit(t)
    <3>1. t \in Producers /\ count[t] \in 0 .. MaxFrames /\ count[t] < MaxFrames
      BY <2>1 DEF Xmit, Control
    <3>2. count[t] + 1 \in 0 .. MaxFrames
      BY <3>1, ConstantsAssumption, SMTT(30)
    <3>3. QED
      BY <2>1, <3>1, <3>2 DEF Xmit, Control
  <2>2. CASE Completion(t) \/ Steps(t)
    BY <2>2
    DEF Completion, Steps, Lock, Unlock, Enqueue, LinkFrame, Publish, Dequeue, Unlink,
        ResetTail, Clear, Control
  <2>3. QED
    BY <2>1, <2>2
<1>4. ser' \in {<<u>> : u \in Threads} \cup {Null}
  BY DEF Xmit, Completion, Steps, Lock, Unlock, Enqueue, LinkFrame, Publish, Dequeue, Unlink,
         ResetTail, Clear, Control
<1>5. Exclusive'
  <2>0. \A u \in Threads : /\ <<u>> # Null
                           /\ <<u>> = <<t>> => u = t
    BY DEF Null
  <2>1. CASE Lock(t)
    <3>1. /\ ser = Null /\ ser' = <<t>> /\ l \in {"enqueue", "dequeue"}
          /\ l = "enqueue" => t \in Producers
      BY <1>1, <2>1 DEF Lock, Goto, Control
    <3>2. \A u \in Threads : pc[u] \notin Inside
      BY <2>0, <3>1 DEF Exclusive
    <3>3. \A u \in Threads : u # t => ser' # <<u>>
      BY <2>0, <3>1
    <3>4. QED
      BY <1>1, <3>1, <3>2, <3>3 DEF Exclusive, Inside
  <2>2. CASE Unlock(t)
    <3>1. ser = <<t>> /\ ser' = Null /\ l = "idle"
      BY <1>1, <2>2 DEF Unlock, Goto, Control, Exclusive, Inside
    <3>2. \A u \in Threads : u # t => pc[u] \notin Inside
      BY <2>0, <3>1 DEF Exclusive
    <3>3. QED
      BY <1>1, <2>0, <3>1, <3>2 DEF Exclusive, Inside
  <2>3. CASE Xmit(t) \/ Completion(t)
    BY <1>1, <2>0, <2>3 DEF Xmit, Completion, Exclusive, Inside, Goto
  <2>4. CASE Enqueue(t) \/ LinkFrame(t) \/ Publish(t) \/ Dequeue(t) \/ Unlink(t)
               \/ ResetTail(t) \/ Clear(t)
    BY <1>1, <2>0, <2>4
    DEF Enqueue, LinkFrame, Publish, Dequeue, Unlink, ResetTail, Clear, Exclusive, Inside,
        Goto
  <2>5. QED
    BY <2>1, <2>2, <2>3, <2>4 DEF Steps
<1>6. QED
  BY <1>2, <1>3, <1>4, <1>5 DEF Control


\* The types of the list and of the histories.
LEMMA TypesStep ==
  ASSUME Locked = TRUE, Inv, NEW t \in Threads, Xmit(t) \/ Completion(t) \/ Steps(t)
  PROVE  Types'
<1> USE DEF Inv, Types
<1>1. CASE Xmit(t)
  <2>1. count[t] + 1 \in 1 .. MaxFrames /\ t \in Producers
    BY <1>1, ConstantsAssumption DEF Xmit, Control
  <2>2. <<t, count[t] + 1>> \in Frames
    BY <2>1 DEF Frames
  <2>3. QED
    BY <1>1, <2>2 DEF Xmit
<1>2. CASE Completion(t) \/ Lock(t) \/ Unlock(t)
  BY <1>2 DEF Completion, Lock, Unlock
<1>3. CASE Enqueue(t) \/ LinkFrame(t) \/ Publish(t)
  <2>1. pc[t] \in {"enqueue", "link", "publish"}
    BY <1>3 DEF Enqueue, LinkFrame, Publish
  <2>2. m[t] = <<t, count[t]>>
    BY <2>1 DEF Fresh, Carries, Pending, Exclusive
  <2>3. m[t] \in Frames
    BY <2>2, NullNoPair
  <2>4. CASE Enqueue(t)
    BY <2>3, <2>4 DEF Enqueue
  <2>5. CASE LinkFrame(t)
    BY <2>3, <2>5 DEF LinkFrame
  <2>6. CASE Publish(t)
    BY <2>3, <2>6 DEF Publish
  <2>7. QED
    BY <1>3, <2>4, <2>5, <2>6
<1>4. CASE Dequeue(t) \/ ResetTail(t)
  BY <1>4 DEF Dequeue, ResetTail
<1>5. CASE Unlink(t) \/ Clear(t)
  <2>1. First <= Len(queued) /\ m[t] = queued[First] /\ First \in Nat \ {0}
    BY <1>5 DEF Unlink, Clear, Listed, ListWhile, First
  <2>2. m[t] \in Frames
    BY <2>1
  <2>3. CASE Unlink(t)
    BY <2>2, <2>3 DEF Unlink
  <2>4. CASE Clear(t)
    BY <2>2, <2>4 DEF Clear
  <2>5. QED
    BY <1>5, <2>3, <2>4
<1>6. QED
  BY <1>1, <1>2, <1>3, <1>4, <1>5 DEF Steps

\* The frames that enter are new.
LEMMA FreshStep ==
  ASSUME Locked = TRUE, Inv, NEW t \in Threads, Xmit(t) \/ Completion(t) \/ Steps(t)
  PROVE  Fresh'
<1>1. PICK l \in Labels : /\ pc' = [pc EXCEPT ![t] = l] /\ pc'[t] = l
                          /\ \A u \in Threads : u # t => pc'[u] = pc[u]
  BY Moves DEF Inv
<1>2. /\ \A f \in Frames : f[1] \in Producers /\ f[1] \in Threads /\ f[2] \in Nat
      /\ \A i \in 1 .. Len(queued) : queued[i] \in Frames
      /\ Len(queued) \in Nat
  BY ConstantsAssumption DEF Inv, Types, Frames, Threads
<1>3. \A p \in Producers : p \in Threads /\ count[p] \in Nat
  BY DEF Inv, Control, Threads
<1>4. Carries /\ AllOld /\ Distinct
  BY DEF Inv, Fresh
<1>5. CASE Xmit(t)
  <2>1. /\ t \in Producers /\ pc[t] = "idle" /\ l = "lock" /\ UNCHANGED queued
        /\ count' = [count EXCEPT ![t] = @ + 1] /\ m' = [m EXCEPT ![t] = <<t, count[t] + 1>>]
    BY <1>1, <1>5 DEF Xmit, Goto, Inv, Control
  <2>2. /\ count'[t] = count[t] + 1 /\ \A p \in Producers : p # t => count'[p] = count[p]
        /\ m'[t] = <<t, count[t] + 1>> /\ \A u \in Threads : u # t => m'[u] = m[u]
    BY <2>1 DEF Inv, Control, Types
  <2>3. \A u \in Threads : u # t => (Pending(u)' <=> Pending(u))
    BY <1>1 DEF Pending
  <2>4. Carries'
    BY <1>4, <2>2, <2>3 DEF Carries, Pending
  <2>5. \A f \in Frames : Old(f) => Old(f)'
    <3> SUFFICES ASSUME NEW f \in Frames, Old(f) PROVE Old(f)'
      OBVIOUS
    <3>1. f[1] \in Producers /\ f[1] \in Threads /\ f[2] \in Nat /\ count[f[1]] \in Nat
      BY <1>2, <1>3
    <3>2. CASE f[1] = t
      BY <2>2, <3>1, <3>2 DEF Old
    <3>3. CASE f[1] # t
      BY <2>2, <2>3, <3>1, <3>3 DEF Old
    <3>4. QED
      BY <3>2, <3>3
  <2>6. AllOld' /\ Distinct'
    BY <1>2, <1>4, <2>1, <2>5 DEF AllOld, Distinct
  <2>7. QED
    BY <2>4, <2>6 DEF Fresh
<1>6. CASE Publish(t)
  <2>1. /\ pc[t] = "publish" /\ l = "dequeue" /\ UNCHANGED count
        /\ queued' = Append(queued, m[t]) /\ m' = [m EXCEPT ![t] = Null]
    BY <1>1, <1>6 DEF Publish, Goto, Inv, Control
  <2>2. t \in Producers /\ Pending(t) /\ ~Pending(t)'
    BY <1>1, <2>1 DEF Inv, Exclusive, Pending
  <2>3. m[t] = <<t, count[t]>>
    BY <1>4, <2>2 DEF Carries
  <2>4. m[t] \in Frames /\ m[t][1] = t /\ m[t][2] = count[t] /\ count[t] \in Nat
    <3>1. m[t] # Null
      BY <2>3, NullNoPair
    <3>2. m[t] \in Frames
      BY <3>1 DEF Inv, Types
    <3>3. QED
      BY <1>3, <2>2, <2>3, <3>2
  <2>5. \A u \in Threads : u # t => (Pending(u)' <=> Pending(u)) /\ m'[u] = m[u]
    BY <1>1, <2>1 DEF Pending, Inv, Types
  <2>6. Carries'
    BY <1>4, <2>1, <2>2, <2>5 DEF Carries
  <2>7. /\ Len(queued') = Len(queued) + 1 /\ queued'[Len(queued) + 1] = m[t]
        /\ \A i \in 1 .. Len(queued) : queued'[i] = queued[i]
        /\ \A i \in 1 .. Len(queued') : i \in 1 .. Len(queued) \/ i = Len(queued) + 1
    BY <2>1, <2>4 DEF Inv, Types
  <2>8. \A i \in 1 .. Len(queued) : queued[i] # m[t]
    <3> SUFFICES ASSUME NEW i \in 1 .. Len(queued), queued[i] = m[t] PROVE FALSE
      OBVIOUS
    <3>1. Old(m[t])
      BY <1>4 DEF AllOld
    <3>2. QED
      BY <2>2, <2>4, <3>1 DEF Old
  <2>9. \A f \in Frames : f = m[t] => Old(f)'
    <3> SUFFICES ASSUME NEW f \in Frames, f = m[t] PROVE Old(f)'
      OBVIOUS
    <3>1. f[1] = t /\ f[2] = count'[t]
      BY <2>1, <2>4
    <3>2. QED
      BY <2>1, <2>2, <2>4, <3>1 DEF Old
  <2>10. \A f \in Frames : Old(f) => Old(f)'
    <3> SUFFICES ASSUME NEW f \in Frames, Old(f) PROVE Old(f)'
      OBVIOUS
    <3>1. f[1] \in Threads /\ (Pending(f[1])' => Pending(f[1]))
      BY <1>2, <2>2, <2>5
    <3>2. QED
      BY <2>1, <3>1 DEF Old
  <2>11. AllOld'
    <3> SUFFICES ASSUME NEW i \in 1 .. Len(queued') PROVE Old(queued[i])'
      BY DEF AllOld
    <3>1. PICK f \in Frames : f = queued'[i]
      BY <1>2, <2>4, <2>7
    <3>2. Old(f)'
      BY <1>4, <2>7, <2>9, <2>10, <3>1 DEF AllOld
    <3>3. QED
      BY <3>1, <3>2 DEF Old
  <2>12. Distinct'
    BY <1>2, <1>4, <2>7, <2>8 DEF Distinct
  <2>13. QED
    BY <2>6, <2>11, <2>12 DEF Fresh
<1>7. CASE ~Xmit(t) /\ ~Publish(t)
  <2>1. UNCHANGED <<count, queued>>
    BY <1>7
    DEF Completion, Steps, Lock, Unlock, Enqueue, LinkFrame, Dequeue, Unlink, ResetTail, Clear
  <2>2. \A u \in Threads : Pending(u)' => Pending(u) /\ m'[u] = m[u]
    <3> SUFFICES ASSUME NEW u \in Threads, Pending(u)' PROVE Pending(u) /\ m'[u] = m[u]
      OBVIOUS
    <3>1. CASE u # t
      <4>1. m'[u] = m[u]
        BY <1>7, <3>1, SMTT(30)
        DEF Completion, Steps, Lock, Unlock, Enqueue, LinkFrame, Dequeue, Unlink, ResetTail,
            Clear, Inv, Types
      <4>2. QED
        BY <1>1, <3>1, <4>1, SMTT(30) DEF Pending
    <3>2. CASE u = t
      BY <1>1, <1>7, <3>2, ConstantsAssumption, SMTT(30)
      DEF Completion, Steps, Lock, Unlock, Enqueue, LinkFrame, Dequeue, Unlink, ResetTail,
          Clear, Goto, Pending, Inv, Exclusive
    <3>3. QED
      BY <3>1, <3>2
  <2>3. Carries'
    BY <1>4, <2>1, <2>2 DEF Carries
  <2>4. \A f \in Frames : Old(f) => Old(f)'
    BY <1>2, <2>1, <2>2 DEF Old
  <2>5. QED
    BY <1>2, <1>4, <2>1, <2>3, <2>4, SMTT(30) DEF Fresh, AllOld, Distinct
<1>8. QED
  BY <1>5, <1>6, <1>7


\* The labels at which an operation is half done.
Busy == {"link", "publish", "unlink", "reset", "clear"}

\* While a thread is inside, the list's shape is a matter of its label alone.
LEMMA Alone ==
  ASSUME Inv, NEW t \in Threads, pc[t] \in Inside, NEW l \in Labels,
         pc'[t] = l, \A u \in Threads : u # t => pc'[u] = pc[u]
  PROVE  /\ pc[t] \notin Busy => Whole
         /\ ListWhile(t, pc[t])
         /\ (l \notin Busy => Whole') /\ ListWhile(t, l)' => Listed'
<1>1. \A u \in Threads : u # t => pc[u] \notin Inside /\ pc[u] \in Labels
  <2>1. ser = <<t>>
    BY DEF Inv, Exclusive
  <2>2. \A u \in Threads : ser = <<u>> => u = t
    BY <2>1
  <2>3. QED
    BY <2>2 DEF Inv, Exclusive, Control
<1>2. \A u \in Threads : u # t => pc[u] \in {"idle", "lock", "startlock"}
  BY <1>1 DEF Inside, Labels
<1>3. pc[t] \notin Busy => Resting
  BY <1>2 DEF Resting, Busy, Inside
<1>4. Resting' <=> l \notin Busy
  BY <1>2 DEF Resting, Busy, Labels
<1>5. ASSUME ListWhile(t, l)' PROVE \A u \in Threads : ListWhile(u, pc[u])'
  <2> SUFFICES ASSUME NEW u \in Threads PROVE ListWhile(u, pc[u])'
    OBVIOUS
  <2>1. CASE u = t
    BY <1>5, <2>1 DEF ListWhile
  <2>2. CASE u # t
    BY <1>2, <2>2 DEF ListWhile
  <2>3. QED
    BY <2>1, <2>2
<1>6. QED
  BY <1>3, <1>4, <1>5 DEF Inv, Listed

\* Taking and leaving the serializer touch no list.
LEMMA OutsideKeeps ==
  ASSUME Locked = TRUE, Inv, NEW t \in Threads,
         Xmit(t) \/ Completion(t) \/ Lock(t) \/ Unlock(t)
  PROVE  Listed' /\ Order'
<1>1. PICK l \in Labels : /\ pc' = [pc EXCEPT ![t] = l] /\ pc'[t] = l
                          /\ \A u \in Threads : u # t => pc'[u] = pc[u]
  BY Moves DEF Inv, Steps
<1>2. /\ UNCHANGED <<ifq_head, ifq_tail, nextpkt, reg, queued, sent>>
      /\ \A u \in Threads : u # t => m'[u] = m[u]
  BY DEF Xmit, Completion, Lock, Unlock, Inv, Types
<1>3. pc[t] \notin Busy /\ l \notin Busy
  BY <1>1 DEF Xmit, Completion, Lock, Unlock, Goto, Busy, Inv, Control
<1>4. Whole' <=> Whole
  BY <1>2 DEF Whole, HeadAt, TailAt, Chain, First
<1>5. Resting' => Resting
  BY <1>1, <1>3 DEF Resting, Busy, Inv, Control, Labels
<1>6. \A u \in Threads : ListWhile(u, pc[u])'
  <2> SUFFICES ASSUME NEW u \in Threads PROVE ListWhile(u, pc[u])'
    OBVIOUS
  <2>1. CASE u = t
    BY <1>1, <1>3, <2>1 DEF ListWhile, Busy
  <2>2. CASE u # t
    <3>1. ListWhile(u, pc[u]) /\ m'[u] = m[u] /\ pc'[u] = pc[u]
      BY <1>1, <1>2, <2>2, SMTT(30) DEF Inv, Listed
    <3>2. QED
      BY <1>2, <3>1, SMTT(30) DEF ListWhile, Whole, HeadAt, TailAt, Chain, First
  <2>3. QED
    BY <2>1, <2>2
<1>7. Order'
  BY <1>2 DEF Inv, Order, FifoOrder
<1>8. QED
  BY <1>4, <1>5, <1>6, <1>7 DEF Inv, Listed


\* IFQ_ENQUEUE.
LEMMA EnqueueKeeps ==
  ASSUME Locked = TRUE, Inv, NEW t \in Threads, Enqueue(t) \/ LinkFrame(t) \/ Publish(t)
  PROVE  Listed' /\ Order'
<1>1. PICK l \in Labels : /\ pc' = [pc EXCEPT ![t] = l] /\ pc'[t] = l
                          /\ \A u \in Threads : u # t => pc'[u] = pc[u]
  BY Moves DEF Inv, Steps
<1>2. pc[t] \in {"enqueue", "link", "publish"} /\ pc[t] \in Inside
  BY DEF Enqueue, LinkFrame, Publish, Inside
<1>3. /\ pc[t] \notin Busy => Whole
      /\ ListWhile(t, pc[t])
      /\ (l \notin Busy => Whole') /\ ListWhile(t, l)' => Listed'
  BY <1>1, <1>2, Alone
<1>4. Pending(t) /\ m[t] = <<t, count[t]>>
  BY <1>2 DEF Inv, Exclusive, Fresh, Carries, Pending
<1>5. m[t] \in Frames /\ m[t][1] = t /\ m[t][2] = count[t] /\ count[t] \in Nat
  <2>1. m[t] # Null /\ t \in Producers
    BY <1>4, NullNoPair DEF Pending
  <2>2. m[t] \in Frames /\ count[t] \in Nat
    BY <2>1 DEF Inv, Types, Control
  <2>3. QED
    BY <1>4, <2>2
<1>6. \A i \in 1 .. Len(queued) : queued[i] # m[t] /\ queued[i] \in Frames
  <2> SUFFICES ASSUME NEW i \in 1 .. Len(queued) PROVE queued[i] # m[t] /\ queued[i] \in Frames
    OBVIOUS
  <2>1. queued[i] \in Frames
    BY DEF Inv, Types
  <2>2. Old(queued[i])
    BY DEF Inv, Fresh, AllOld
  <2>3. QED
    BY <1>4, <1>5, <2>1, <2>2 DEF Old
<1>7. /\ Len(queued) \in Nat /\ Len(sent) \in Nat /\ Len(sent) <= Len(queued)
      /\ First \in Nat \ {0}
  BY DEF Inv, Types, Order, First
<1>8. nextpkt \in [Frames -> Frames \cup {Null}]
  BY DEF Inv, Types
<1>9. CASE Enqueue(t)
  <2>1. /\ l = "link" /\ nextpkt' = [nextpkt EXCEPT ![m[t]] = Null]
        /\ reg'[t] = ifq_tail /\ UNCHANGED <<ifq_head, ifq_tail, m, queued, sent>>
        /\ Whole
    BY <1>1, <1>3, <1>9, SMTT(30) DEF Enqueue, Goto, Inv, Types, Control, Busy
  <2>2. /\ nextpkt'[m[t]] = Null
        /\ \A i \in 1 .. Len(queued) : nextpkt'[queued[i]] = nextpkt[queued[i]]
    BY <1>5, <1>6, <1>8, <2>1
  <2>3. Whole'
    BY <1>7, <2>1, <2>2 DEF Whole, HeadAt, TailAt, Chain, First
  <2>4. ListWhile(t, l)'
    BY <2>1, <2>2, <2>3 DEF ListWhile
  <2>5. Order'
    BY <2>1 DEF Inv, Order, FifoOrder
  <2>6. QED
    BY <1>3, <2>1, <2>4, <2>5, SMTT(30) DEF Busy
<1>10. CASE LinkFrame(t)
  <2>1. /\ l = "publish" /\ UNCHANGED <<ifq_tail, m, queued, sent>>
        /\ IF reg[t] # Null
           THEN nextpkt' = [nextpkt EXCEPT ![reg[t]] = m[t]] /\ UNCHANGED ifq_head
           ELSE ifq_head' = m[t] /\ UNCHANGED nextpkt
        /\ pc[t] = "link"
    BY <1>1, <1>10 DEF LinkFrame, Goto, Inv, Control
  <2>2. Whole /\ reg[t] = ifq_tail /\ nextpkt[m[t]] = Null
    BY <1>3, <2>1 DEF ListWhile
  <2>3. ASSUME First > Len(queued) PROVE ListWhile(t, l)'
    <3>1. ifq_tail = Null
      BY <2>2, <2>3 DEF Whole, TailAt
    <3>2. ifq_head' = m[t] /\ UNCHANGED nextpkt
      BY <2>1, <2>2, <3>1
    <3>3. HeadAt(First, m[t])' /\ TailAt(First)' /\ Chain(First, m[t])'
      BY <1>7, <2>1, <2>3, <3>1, <3>2 DEF HeadAt, TailAt, Chain, First
    <3>4. QED
      BY <2>1, <2>2, <3>2, <3>3 DEF ListWhile
  <2>4. ASSUME First <= Len(queued) PROVE ListWhile(t, l)'
    <3>1. ifq_tail = queued[Len(queued)] /\ Len(queued) \in 1 .. Len(queued)
      BY <1>7, <2>2, <2>4 DEF Whole, TailAt
    <3>2. reg[t] \in Frames /\ reg[t] # Null /\ reg[t] # m[t]
      BY <1>6, <2>2, <3>1, NullNoFrame
    <3>3. /\ nextpkt' = [nextpkt EXCEPT ![reg[t]] = m[t]] /\ UNCHANGED ifq_head
      BY <2>1, <3>2, SMTT(30)
    <3>4. /\ nextpkt'[queued[Len(queued)]] = m[t]
          /\ nextpkt'[m[t]] = Null
          /\ \A i \in 1 .. Len(queued) : i # Len(queued) => nextpkt'[queued[i]] = nextpkt[queued[i]]
      <4>1. \A i \in 1 .. Len(queued) : i # Len(queued) => queued[i] # queued[Len(queued)]
        BY <3>1 DEF Inv, Fresh, Distinct
      <4>2. QED
        BY <1>5, <1>6, <1>8, <2>2, <3>1, <3>2, <3>3, <4>1
    <3>5. HeadAt(First, m[t])' /\ TailAt(First)'
      BY <1>7, <2>1, <2>2, <2>4, <3>3, SMTT(30) DEF Whole, HeadAt, TailAt, First
    <3>6. Chain(First, m[t])'
      BY <1>7, <2>1, <2>2, <2>4, <3>4, SMTT(30) DEF Whole, Chain, First
    <3>7. QED
      BY <2>1, <3>4, <3>5, <3>6 DEF ListWhile
  <2>5. ListWhile(t, l)' => Listed'
    BY <1>3, <2>1 DEF Busy
  <2>6. Order'
    BY <2>1 DEF Inv, Order, FifoOrder
  <2>7. ListWhile(t, l)'
    <3>1. First > Len(queued) \/ First <= Len(queued)
      BY <1>7
    <3>2. QED
      BY <2>3, <2>4, <3>1
  <2>8. QED
    BY <2>5, <2>6, <2>7
<1>11. CASE Publish(t)
  <2>1. /\ l = "dequeue" /\ ifq_tail' = m[t] /\ queued' = Append(queued, m[t])
        /\ UNCHANGED <<ifq_head, nextpkt, sent>> /\ pc[t] = "publish"
    BY <1>1, <1>11 DEF Publish, Goto, Inv, Control
  <2>2. /\ HeadAt(First, m[t]) /\ TailAt(First) /\ Chain(First, m[t])
        /\ nextpkt[m[t]] = Null
    BY <1>3, <2>1, SMTT(30) DEF ListWhile
  <2>3. /\ Len(queued') = Len(queued) + 1 /\ queued'[Len(queued) + 1] = m[t]
        /\ \A i \in 1 .. Len(queued) : queued'[i] = queued[i]
    BY <1>5, <2>1 DEF Inv, Types
  <2>4. HeadAt(First, Null)' /\ TailAt(First)'
    BY <1>7, <2>1, <2>2, <2>3 DEF HeadAt, TailAt, First
  <2>5. Chain(First, Null)'
    <3> SUFFICES ASSUME NEW i \in First .. Len(queued) + 1
                 PROVE  nextpkt[queued'[i]] = IF i = Len(queued) + 1 THEN Null
                                              ELSE queued'[i + 1]
      BY <1>7, <2>1, <2>3, Zenon DEF Chain, First
    <3>1. CASE i = Len(queued) + 1
      BY <2>2, <2>3, <3>1, SMTT(30)
    <3>2. CASE i = Len(queued)
      BY <1>7, <2>2, <2>3, <3>2 DEF Chain
    <3>3. CASE i < Len(queued)
      <4>1. /\ i \in First .. Len(queued) /\ i \in 1 .. Len(queued)
            /\ i + 1 \in 1 .. Len(queued) /\ i # Len(queued) /\ i # Len(queued) + 1
        BY <1>7, <3>3
      <4>2. nextpkt[queued[i]] = queued[i + 1]
        BY <2>2, <4>1 DEF Chain
      <4>3. QED
        BY <2>3, <4>1, <4>2
    <3>4. QED
      BY <1>7, <3>1, <3>2, <3>3, SMTT(30)
  <2>6. Order'
    BY <1>7, <2>1, <2>3 DEF Inv, Order, FifoOrder
  <2>7. QED
    BY <1>3, <2>1, <2>4, <2>5, <2>6 DEF Whole, ListWhile
<1>12. QED
  BY <1>9, <1>10, <1>11


\* IFQ_DEQUEUE.
LEMMA DequeueKeeps ==
  ASSUME Locked = TRUE, Inv, NEW t \in Threads,
         Dequeue(t) \/ Unlink(t) \/ ResetTail(t) \/ Clear(t)
  PROVE  Listed' /\ Order'
<1>1. PICK l \in Labels : /\ pc' = [pc EXCEPT ![t] = l] /\ pc'[t] = l
                          /\ \A u \in Threads : u # t => pc'[u] = pc[u]
  BY Moves DEF Inv, Steps
<1>2. pc[t] \in Inside
  BY DEF Dequeue, Unlink, ResetTail, Clear, Inside
<1>3. /\ pc[t] \notin Busy => Whole
      /\ ListWhile(t, pc[t])
      /\ (l \notin Busy => Whole') /\ ListWhile(t, l)' => Listed'
  BY <1>1, <1>2, Alone, SMTT(30)
<1>4. /\ Len(queued) \in Nat /\ Len(sent) \in Nat /\ Len(sent) <= Len(queued)
      /\ First \in Nat \ {0} /\ First = Len(sent) + 1
      /\ \A i \in 1 .. Len(queued) : queued[i] \in Frames /\ queued[i] # Null
  BY NullNoFrame DEF Inv, Types, Order, First
<1>5. CASE Dequeue(t)
  <2>1. /\ l = IF ifq_head = Null THEN "done" ELSE "unlink"
        /\ m'[t] = ifq_head /\ UNCHANGED <<ifq_head, ifq_tail, nextpkt, queued, sent>>
        /\ Whole
    BY <1>1, <1>3, <1>5 DEF Dequeue, Goto, Inv, Types, Control, Busy
  <2>2. Whole' /\ First' = First
    BY <2>1 DEF Whole, HeadAt, TailAt, Chain, First
  <2>3. ifq_head # Null => First <= Len(queued) /\ ifq_head = queued[First]
    BY <1>4, <2>1 DEF Whole, HeadAt
  <2>4. ListWhile(t, l)'
    <3>1. CASE ifq_head = Null
      BY <2>1, <3>1 DEF ListWhile
    <3>2. CASE ifq_head # Null
      BY <2>1, <2>2, <2>3, <3>2 DEF ListWhile
    <3>3. QED
      BY <3>1, <3>2
  <2>5. Order'
    BY <2>1 DEF Inv, Order, FifoOrder
  <2>6. QED
    BY <1>3, <2>2, <2>4, <2>5, SMTT(30)
<1>6. CASE Unlink(t)
  <2>1. /\ ifq_head' = nextpkt[m[t]] /\ UNCHANGED <<ifq_tail, nextpkt, m, queued, sent>>
        /\ l = (IF ifq_head' = Null THEN "reset" ELSE "clear") /\ pc[t] = "unlink"
    BY <1>1, <1>6 DEF Unlink, Goto, Inv, Control
  <2>2. Whole /\ First <= Len(queued) /\ m[t] = queued[First] /\ First' = First
    BY <1>3, <2>1, SMTT(30) DEF ListWhile, First
  <2>3. ifq_head' = IF First = Len(queued) THEN Null ELSE queued[First + 1]
    BY <1>4, <2>1, <2>2, SMTT(30) DEF Whole, Chain
  <2>4. CASE First = Len(queued)
    <3>1. l = "reset"
      BY <2>1, <2>3, <2>4
    <3>2. ListWhile(t, l)'
      BY <2>1, <2>2, <2>3, <2>4, <3>1 DEF ListWhile
    <3>3. QED
      BY <1>3, <2>1, <3>1, <3>2, SMTT(30) DEF Busy, Inv, Order, FifoOrder
  <2>5. CASE First # Len(queued)
    <3>1. First + 1 \in 1 .. Len(queued) /\ First + 1 \in Nat
      BY <1>4, <2>2, <2>5
    <3>2. l = "clear" /\ ifq_head' = queued[First + 1]
      BY <1>4, <2>1, <2>3, <2>5, <3>1
    <3>3. ifq_tail = queued[Len(queued)]
      BY <1>4, <2>2, SMTT(30) DEF Whole, TailAt
    <3>4. HeadAt(First + 1, Null)' /\ TailAt(First + 1)'
      BY <1>4, <2>1, <2>2, <3>1, <3>2, <3>3 DEF HeadAt, TailAt
    <3>5. Chain(First + 1, Null)'
      BY <1>4, <2>1, <2>2, SMTT(30) DEF Whole, Chain
    <3>6. ListWhile(t, l)'
      BY <2>1, <2>2, <3>2, <3>4, <3>5 DEF ListWhile
    <3>7. QED
      BY <1>3, <2>1, <3>2, <3>6 DEF Busy, Inv, Order, FifoOrder
  <2>6. QED
    BY <2>4, <2>5, SMTT(30)
<1>7. CASE ResetTail(t)
  <2>1. /\ ifq_tail' = Null /\ UNCHANGED <<ifq_head, nextpkt, m, queued, sent>>
        /\ l = "clear" /\ pc[t] = "reset" /\ First' = First
    BY <1>1, <1>7 DEF ResetTail, Goto, Inv, Control, First
  <2>2. First = Len(queued) /\ m[t] = queued[First] /\ ifq_head = Null
    BY <1>3, <2>1, SMTT(30) DEF ListWhile
  <2>3. HeadAt(First + 1, Null)' /\ TailAt(First + 1)' /\ Chain(First + 1, Null)'
    BY <1>4, <2>1, <2>2 DEF HeadAt, TailAt, Chain
  <2>4. ListWhile(t, l)'
    BY <1>4, <2>1, <2>2, <2>3 DEF ListWhile
  <2>5. QED
    BY <1>3, <2>1, <2>4, SMTT(30) DEF Busy, Inv, Order, FifoOrder
<1>8. CASE Clear(t)
  <2>1. /\ nextpkt' = [nextpkt EXCEPT ![m[t]] = Null] /\ sent' = Append(sent, m[t])
        /\ UNCHANGED <<ifq_head, ifq_tail, queued>> /\ l = "dequeue" /\ pc[t] = "clear"
    BY <1>1, <1>8 DEF Clear, Goto, Inv, Control
  <2>2. /\ First <= Len(queued) /\ m[t] = queued[First]
        /\ HeadAt(First + 1, Null) /\ TailAt(First + 1) /\ Chain(First + 1, Null)
    BY <1>3, <2>1, SMTT(30) DEF ListWhile
  <2>3. /\ m[t] \in Frames /\ Len(sent') = Len(sent) + 1 /\ sent'[Len(sent) + 1] = m[t]
        /\ First' = First + 1 /\ \A i \in 1 .. Len(sent) : sent'[i] = sent[i]
    BY <1>4, <2>1, <2>2, SMTT(30) DEF Inv, Types, First
  <2>4. \A i \in First + 1 .. Len(queued) : nextpkt'[queued[i]] = nextpkt[queued[i]]
    <3> SUFFICES ASSUME NEW i \in First + 1 .. Len(queued)
                 PROVE  nextpkt'[queued[i]] = nextpkt[queued[i]]
      BY SMTT(30)
    <3>1. i \in 1 .. Len(queued) /\ First \in 1 .. Len(queued) /\ i # First
      BY <1>4, <2>2
    <3>2. queued[i] # m[t] /\ queued[i] \in Frames
      BY <1>4, <2>2, <3>1, SMTT(30) DEF Inv, Fresh, Distinct
    <3>3. QED
      BY <2>1, <2>3, <3>2 DEF Inv, Types
  <2>5. Whole'
    BY <1>4, <2>1, <2>2, <2>3, <2>4, SMTT(30) DEF Whole, HeadAt, TailAt, Chain
  <2>6. Order'
    <3>1. /\ Len(sent) \in Nat /\ Len(queued) \in Nat /\ First = Len(sent) + 1
          /\ queued' = queued /\ sent'[First] = queued[First] /\ Len(sent') = First
      BY <1>4, <2>1, <2>2, <2>3, SMTT(30) DEF Inv, Types, First
    <3>2. \A i \in 1 .. Len(sent) : i <= Len(queued) /\ sent'[i] = queued[i]
      BY <2>3, SMTT(30) DEF Inv, Order, FifoOrder
    <3>3. \A i \in 1 .. First : i <= Len(queued) /\ sent'[i] = queued[i]
      BY <2>2, <3>1, <3>2, SMTT(30)
    <3> QED BY <2>2, <3>1, <3>3, SMTT(30) DEF Order, FifoOrder
  <2>7. QED
    BY <1>3, <2>1, <2>5, <2>6, SMTT(30) DEF ListWhile
<1>9. QED
  BY <1>5, <1>6, <1>7, <1>8

-----------------------------------------------------------------------------
(* The theorem *)

\* With the serializer held around every operation, as iwm holds it, the list
\* is exactly the backlog whenever no operation is half done, and frames leave
\* in the order in which they were published, each once.
THEOREM QueueIsFifo == ASSUME Locked = TRUE PROVE Spec => []QueueInv
<1>1. Init => Inv
  <2> SUFFICES ASSUME Init PROVE Inv
    OBVIOUS
  <2>1. Len(queued) = 0 /\ Len(sent) = 0 /\ First = 1 /\ \A t \in Threads : pc[t] = "idle"
    BY DEF Init, First
  <2>2. Types
    BY DEF Init, Types
  <2>3. Control
    BY ConstantsAssumption DEF Init, Control, Labels
  <2>4. Exclusive
    <3>1. \A t : <<t>> # Null
      BY DEF Null
    <3>2. ser = Null
      BY DEF Init
    <3>3. QED
      BY <2>1, <3>1, <3>2 DEF Exclusive, Inside
  <2>5. Fresh
    BY <2>1 DEF Fresh, Carries, AllOld, Distinct, Pending
  <2>6. Whole
    BY <2>1 DEF Init, Whole, HeadAt, TailAt, Chain
  <2>7. Listed
    BY <2>1, <2>6 DEF Listed, ListWhile
  <2>8. Order
    BY <2>1, SMTT(30) DEF Order, FifoOrder
  <2>9. QED
    BY <2>2, <2>3, <2>4, <2>5, <2>7, <2>8 DEF Inv
<1>2. Inv /\ [Next]_vars => Inv'
  <2> SUFFICES ASSUME Inv, [Next]_vars PROVE Inv'
    OBVIOUS
  <2>1. ASSUME NEW t \in Threads, Xmit(t) \/ Completion(t) \/ Steps(t) PROVE Inv'
    <3>1. Control' /\ Exclusive' /\ Types' /\ Fresh'
      BY <2>1, ControlStep, TypesStep, FreshStep DEF Inv
    <3>2. Listed' /\ Order'
      BY <2>1, OutsideKeeps, EnqueueKeeps, DequeueKeeps, SMTT(30) DEF Steps
    <3>3. QED
      BY <3>1, <3>2 DEF Inv
  <2>2. CASE UNCHANGED vars
    BY <2>2
    DEF vars, Inv, Types, Control, Exclusive, Fresh, Carries, AllOld, Old, Distinct, Pending,
        Listed, Resting, ListWhile, Whole, HeadAt, TailAt, Chain, First, Order, FifoOrder
  <2>3. QED
    BY <2>1, <2>2 DEF Next
<1>3. Inv => QueueInv
  <2> SUFFICES ASSUME Inv PROVE QueueInv
    OBVIOUS
  <2>1. TypeOK
    BY DEF Inv, Types, Control, Order, TypeOK, Labels
  <2>2. ListIsBacklog
    <3> SUFFICES ASSUME Resting PROVE ListIsBacklog
      BY DEF ListIsBacklog
    <3> DEFINE b == Backlog
    <3>1. Whole /\ queued \in Seq(Frames) /\ Len(queued) \in Nat /\ Len(sent) \in Nat
          /\ Len(sent) <= Len(queued)
      BY DEF Inv, Listed, Types, Order
    <3>2. /\ Len(b) = Len(queued) - Len(sent)
          /\ \A i \in 1 .. Len(b) : b[i] = queued[Len(sent) + i]
          /\ b \in Seq(Frames)
      BY <3>1 DEF Backlog
    <3>3. b = <<>> <=> Len(b) = 0
      BY <3>2
    <3> HIDE DEF b
    <3>4. ifq_head = IF b = <<>> THEN Null ELSE b[1]
      BY <3>1, <3>2, <3>3 DEF Whole, HeadAt, First
    <3>5. ifq_tail = IF b = <<>> THEN Null ELSE b[Len(b)]
      BY <3>1, <3>2, <3>3 DEF Whole, TailAt, First
    <3>6. \A i \in 1 .. Len(b) : nextpkt[b[i]] = IF i = Len(b) THEN Null ELSE b[i + 1]
      <4> TAKE i \in 1 .. Len(b)
      <4>1. /\ Len(sent) + i \in First .. Len(queued) /\ b[i] = queued[Len(sent) + i]
            /\ i = Len(b) <=> Len(sent) + i = Len(queued)
        BY <3>1, <3>2 DEF First
      <4>2. i # Len(b) => b[i + 1] = queued[Len(sent) + i + 1]
        <5>1. i # Len(b) => i + 1 \in 1 .. Len(b)
          <6>1. Len(b) \in Nat
            BY <3>2
          <6>2. QED
            BY <6>1
        <5>2. Len(sent) + (i + 1) = Len(sent) + i + 1
          BY <3>1, <3>2
        <5>3. QED
          BY <3>2, <5>1, <5>2
      <4>3. QED
        BY <3>1, <4>1, <4>2 DEF Whole, Chain
    <3>7. QED
      BY <3>4, <3>5, <3>6 DEF ListIsBacklog, b
  <2>3. QED
    BY <2>1, <2>2 DEF QueueInv, Inv, Order
<1>4. QED
  BY <1>1, <1>2, <1>3, PTL DEF Spec

=============================================================================
