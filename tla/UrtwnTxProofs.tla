---------------------------- MODULE UrtwnTxProofs ----------------------------
(***************************************************************************)
(* Proofs about UrtwnTx: a tx_data is in one place at a time, for any      *)
(* number of senders, pipes, buffers and frames, whatever fails except the *)
(* lookup of a key; and a ring of completions with a place for every       *)
(* transfer the driver owns never drops one.                               *)
(***************************************************************************)
EXTENDS UrtwnTx, FiniteSetTheorems, TLAPS

Labels == {"idle", "lock", "start", "poll", "get", "full", "dequeue", "tx",
           "return", "dead", "txeof", "clear", "input", "resubmit", "rxdone"}

\* The types, by what changes them.
QueueTypes ==
  /\ mgtq \in Nat /\ snd \in Nat /\ fed \in Nat /\ mgtq + snd <= fed /\ fed <= MaxFrames
CtlTypes ==
  /\ oactive \in BOOLEAN /\ fault \subseteq {"null", "key"}
  /\ ser \in Threads \cup {"none"}
  /\ pc \in [Threads -> Labels]
  /\ qof \in [Threads -> {"none", "mgt", "snd"}]
  /\ status \in {"none", "ok", "error", "stalled"} /\ rx \in {None, Rx}
BufTypes ==
  /\ free \in [Pipes -> Seq(TxData)]
  /\ flying \subseteq Xfers /\ lost \subseteq Xfers
  /\ ring \in Seq(Xfers \X {"ok", "error", "stalled"}) /\ Len(ring) <= RingSize
  /\ data \in [Threads -> TxData \cup {None}]
Types == QueueTypes /\ CtlTypes /\ BufTypes

\* A thread holds a tx_data from urtwn_get_tx_data to the hand-over, and the
\* URB worker holds the one whose completion it handles.
Holding == {"dequeue", "tx", "txeof"}
Held ==
  /\ \A t \in Threads :
       /\ pc[t] \in Holding => data[t] # None
       /\ pc[t] \notin Holding \cup {"dead"} => data[t] = None
  /\ pc[Urbw] \in {"input", "resubmit"} => rx # None

\* Each free list has the tx_data of its own pipe.
AtHome == \A p \in Pipes : \A i \in 1 .. Len(free[p]) : free[p][i][1] = p

Inv == Types /\ Held /\ AtHome /\ OneHome

-----------------------------------------------------------------------------
(* Counting *)

One(P) == IF P THEN 1 ELSE 0

\* Any set of positions can be counted.
LEMMA FinitePart ==
  ASSUME NEW n \in Nat, NEW S \in SUBSET (1 .. n)
  PROVE  IsFiniteSet(S) /\ Cardinality(S) \in Nat
<1>1. S \in SUBSET Nat /\ \A i \in S : i <= n
  OBVIOUS
<1>2. IsFiniteSet(S)
  BY <1>1, FS_BoundedSetOfNaturals
<1>3. QED
  BY <1>2, FS_CardinalityType

\* Positions of a sequence that lost its head.
LEMMA ShiftCard ==
  ASSUME NEW n \in Nat, NEW S \in SUBSET (1 .. (n + 1))
  PROVE  /\ IsFiniteSet(S) /\ Cardinality(S) \in Nat
         /\ Cardinality({i \in 1 .. n : i + 1 \in S}) = Cardinality(S) - One(1 \in S)
<1> DEFINE T == {i \in 1 .. n : i + 1 \in S}
           f == [i \in T |-> i + 1]
<1>1. IsFiniteSet(S) /\ Cardinality(S) \in Nat
  <2>1. n + 1 \in Nat
    OBVIOUS
  <2>2. QED
    BY <2>1, FinitePart, Zenon
<1>2. IsFiniteSet(T)
  <2>1. T \in SUBSET (1 .. n)
    OBVIOUS
  <2>2. QED
    BY <2>1, FinitePart, Zenon
<1>3. f \in Bijection(T, S \ {1})
  <2>1. \A i \in T : i \in Nat /\ i # 0 /\ i + 1 \in S /\ i + 1 # 1 /\ f[i] = i + 1
    OBVIOUS
  <2>2. \A j \in S \ {1} : j - 1 \in T /\ (j - 1) + 1 = j
    OBVIOUS
  <2>3. f \in [T -> S \ {1}]
    BY <2>1
  <2>4. \A i, j \in T : f[i] = f[j] => i = j
    BY <2>1
  <2>5. \A j \in S \ {1} : \E i \in T : f[i] = j
    BY <2>1, <2>2
  <2> HIDE DEF f, T
  <2>6. QED
    BY <2>3, <2>4, <2>5 DEF Bijection, Injection, Surjection, IsInjective
<1>4. Cardinality(S \ {1}) = Cardinality(T)
  BY <1>2, <1>3, FS_Bijection DEF ExistsBijection
<1>5. QED
  BY <1>1, <1>4, FS_RemoveElement DEF One

\* Appending to a free list, and taking its head.
LEMMA TimesAppend ==
  ASSUME NEW S, NEW s \in Seq(S), NEW e \in S, NEW d
  PROVE  Times(s, d) \in Nat /\ Times(Append(s, e), d) = Times(s, d) + One(e = d)
<1> DEFINE A == {i \in 1 .. Len(s) : s[i] = d}
           B == {i \in 1 .. Len(Append(s, e)) : Append(s, e)[i] = d}
<1>1. /\ Len(s) \in Nat /\ Len(Append(s, e)) = Len(s) + 1 /\ Append(s, e)[Len(s) + 1] = e
      /\ \A i \in 1 .. Len(s) : Append(s, e)[i] = s[i]
  OBVIOUS
<1>2. IsFiniteSet(A) /\ Cardinality(A) \in Nat
  <2>1. A \in SUBSET (1 .. Len(s))
    OBVIOUS
  <2>2. QED
    BY <1>1, <2>1, FinitePart, Zenon
<1>3. B = IF e = d THEN A \cup {Len(s) + 1} ELSE A
  <2>1. 1 .. Len(Append(s, e)) = (1 .. Len(s)) \cup {Len(s) + 1}
    BY <1>1
  <2>2. QED
    BY <1>1, <2>1
<1>4. Len(s) + 1 \notin A
  BY <1>1
<1> HIDE DEF A, B
<1>5. Cardinality(A \cup {Len(s) + 1}) = Cardinality(A) + 1
  BY <1>2, <1>4, FS_AddElement, Zenon
<1>6. Cardinality(B) = Cardinality(A) + One(e = d)
  BY <1>2, <1>3, <1>5 DEF One
<1>7. QED
  BY <1>2, <1>6, Zenon DEF Times, A, B

\* Taking the head of a free list removes one occurrence of it.
LEMMA TimesTail ==
  ASSUME NEW S, NEW s \in Seq(S), s # <<>>, NEW d
  PROVE  Times(Tail(s), d) = Times(s, d) - One(Head(s) = d)
<1> DEFINE A == {i \in 1 .. Len(s) : s[i] = d}
           n == Len(s) - 1
<1>1. /\ n \in Nat /\ Len(s) = n + 1 /\ Len(Tail(s)) = n /\ Head(s) = s[1]
      /\ \A i \in 1 .. n : Tail(s)[i] = s[i + 1] /\ i + 1 \in 1 .. Len(s)
      /\ 1 \in 1 .. Len(s)
  OBVIOUS
<1>2. A \in SUBSET (1 .. (n + 1)) /\ (1 \in A <=> Head(s) = d)
  BY <1>1
<1>3. {i \in 1 .. Len(Tail(s)) : Tail(s)[i] = d} = {i \in 1 .. n : i + 1 \in A}
  BY <1>1
<1> HIDE DEF n, A
<1>4. Cardinality({i \in 1 .. n : i + 1 \in A}) = Cardinality(A) - One(1 \in A)
  BY <1>1, <1>2, ShiftCard
<1>5. One(1 \in A) = One(Head(s) = d)
  BY <1>2 DEF One
<1>6. QED
  BY <1>3, <1>4, <1>5, Zenon DEF Times, A

\* The same for the completion ring, which is counted by transfer.
InRing(r, d) == Cardinality({i \in 1 .. Len(r) : r[i][1] = d})

\* Posting a completion adds one entry of its transfer.
LEMMA RingAppend ==
  ASSUME NEW S, NEW s \in Seq(S), NEW e \in S, NEW d
  PROVE  InRing(s, d) \in Nat /\ InRing(Append(s, e), d) = InRing(s, d) + One(e[1] = d)
<1> DEFINE A == {i \in 1 .. Len(s) : s[i][1] = d}
           B == {i \in 1 .. Len(Append(s, e)) : Append(s, e)[i][1] = d}
<1>1. /\ Len(s) \in Nat /\ Len(Append(s, e)) = Len(s) + 1 /\ Append(s, e)[Len(s) + 1] = e
      /\ \A i \in 1 .. Len(s) : Append(s, e)[i] = s[i]
  OBVIOUS
<1>2. IsFiniteSet(A) /\ Cardinality(A) \in Nat
  <2>1. A \in SUBSET (1 .. Len(s))
    OBVIOUS
  <2>2. QED
    BY <1>1, <2>1, FinitePart, Zenon
<1>3. B = IF e[1] = d THEN A \cup {Len(s) + 1} ELSE A
  <2>1. 1 .. Len(Append(s, e)) = (1 .. Len(s)) \cup {Len(s) + 1}
    BY <1>1
  <2>2. QED
    BY <1>1, <2>1
<1>4. Len(s) + 1 \notin A
  BY <1>1
<1> HIDE DEF A, B
<1>5. Cardinality(A \cup {Len(s) + 1}) = Cardinality(A) + 1
  BY <1>2, <1>4, FS_AddElement, Zenon
<1>6. Cardinality(B) = Cardinality(A) + One(e[1] = d)
  BY <1>2, <1>3, <1>5 DEF One
<1>7. QED
  BY <1>2, <1>6, Zenon DEF InRing, A, B

\* Taking a completion removes one entry of its transfer.
LEMMA RingTail ==
  ASSUME NEW S, NEW s \in Seq(S), s # <<>>, NEW d
  PROVE  InRing(Tail(s), d) = InRing(s, d) - One(Head(s)[1] = d)
<1> DEFINE A == {i \in 1 .. Len(s) : s[i][1] = d}
           n == Len(s) - 1
<1>1. /\ n \in Nat /\ Len(s) = n + 1 /\ Len(Tail(s)) = n /\ Head(s) = s[1]
      /\ \A i \in 1 .. n : Tail(s)[i] = s[i + 1] /\ i + 1 \in 1 .. Len(s)
      /\ 1 \in 1 .. Len(s)
  OBVIOUS
<1>2. A \in SUBSET (1 .. (n + 1)) /\ (1 \in A <=> Head(s)[1] = d)
  BY <1>1
<1>3. {i \in 1 .. Len(Tail(s)) : Tail(s)[i][1] = d} = {i \in 1 .. n : i + 1 \in A}
  BY <1>1
<1> HIDE DEF n, A
<1>4. Cardinality({i \in 1 .. n : i + 1 \in A}) = Cardinality(A) - One(1 \in A)
  BY <1>1, <1>2, ShiftCard, Zenon
<1>5. One(1 \in A) = One(Head(s)[1] = d)
  BY <1>2 DEF One
<1>6. QED
  BY <1>3, <1>4, <1>5, Zenon DEF InRing, A

\* Threads that hold d, when one of them takes or gives up a tx_data.
Holders(f, d) == Cardinality({t \in Threads : f[t] = d})
Elsewhere(f, g, t) == \A u \in Threads : u # t => g[u] = f[u]

\* When one thread changes what it holds, the count follows it.
LEMMA HoldersChange ==
  ASSUME NEW f, NEW g, NEW t \in Threads, NEW d, Elsewhere(f, g, t)
  PROVE  /\ Holders(f, d) \in Nat
         /\ f[t] # d /\ g[t] = d => Holders(g, d) = Holders(f, d) + 1
         /\ f[t] = d /\ g[t] # d => Holders(g, d) = Holders(f, d) - 1
         /\ f[t] = d => Holders(f, d) >= 1
         /\ (f[t] = d <=> g[t] = d) => Holders(g, d) = Holders(f, d)
<1> DEFINE A == {u \in Threads : f[u] = d}
           B == {u \in Threads : g[u] = d}
<1>1. IsFiniteSet(Threads)
  BY ConstantsAssumption, FS_AddElement DEF Threads
<1>2. IsFiniteSet(A) /\ Cardinality(A) \in Nat
  BY <1>1, FS_Subset, FS_CardinalityType
<1>4. CASE f[t] # d /\ g[t] = d
  <2>1. B = A \cup {t} /\ t \notin A
    BY <1>4 DEF Elsewhere
  <2> HIDE DEF A, B
  <2>2. Cardinality(B) = Cardinality(A) + 1
    BY <1>2, <2>1, FS_AddElement
  <2>3. QED
    BY <1>2, <1>4, <2>2 DEF Holders, A, B
<1>5. CASE f[t] = d /\ g[t] # d
  <2>1. B = A \ {t} /\ t \in A
    BY <1>5 DEF Elsewhere
  <2>2. Cardinality(A) # 0
    BY <1>2, <2>1, FS_EmptySet
  <2> HIDE DEF A, B
  <2>3. Cardinality(B) = Cardinality(A) - 1
    BY <1>2, <2>1, FS_RemoveElement
  <2>4. Cardinality(A) >= 1
    BY <1>2, <2>2
  <2>5. QED
    BY <1>2, <1>5, <2>3, <2>4 DEF Holders, A, B
<1>6. CASE f[t] = d <=> g[t] = d
  <2>1. B = A
    BY <1>6 DEF Elsewhere
  <2>2. f[t] = d => Cardinality(A) # 0
    BY <1>2, FS_EmptySet
  <2>3. f[t] = d => Cardinality(A) >= 1
    <3> HIDE DEF A
    <3>1. QED
      BY <1>2, <2>2
  <2>4. Holders(f, d) = Cardinality(A) /\ Holders(g, d) = Cardinality(B)
    BY DEF Holders
  <2> HIDE DEF A, B
  <2>5. QED
    BY <1>2, <1>6, <2>1, <2>3, <2>4
<1>7. QED
  BY <1>4, <1>5, <1>6

\* The same for the tx_data the threads hold before and after a step.
LEMMA HoldersStep ==
  ASSUME NEW t \in Threads, NEW d, Elsewhere(data, data', t)
  PROVE  /\ data[t] # d /\ data'[t] = d => Holders(data', d) = Holders(data, d) + 1
         /\ data[t] = d /\ data'[t] # d => Holders(data', d) = Holders(data, d) - 1
         /\ (data[t] = d <=> data'[t] = d) => Holders(data', d) = Holders(data, d)
  BY HoldersChange

\* Membership as a count.
LEMMA MemberCount ==
  ASSUME NEW S, NEW d
  PROVE  Cardinality({d} \cap S) = One(d \in S)
<1>1. CASE d \in S
  <2>1. {d} \cap S = {d}
    BY <1>1
  <2>2. QED
    BY <1>1, <2>1, FS_Singleton DEF One
<1>2. CASE d \notin S
  <2>1. {d} \cap S = {}
    BY <1>2
  <2>2. QED
    BY <1>2, <2>1, FS_EmptySet DEF One
<1>3. QED
  BY <1>1, <1>2

-----------------------------------------------------------------------------
(* Where a tx_data is *)

\* With the shim: in the ring, with the controller, or lost.
Away(d) == InRing(ring, d) + One(d \in flying) + One(d \in lost)

\* Homes counts the free list, the threads and what is away.
LEMMA HomesSplit ==
  ASSUME BufTypes, NEW d \in TxData
  PROVE  /\ Homes(d) = Times(free[d[1]], d) + Holders(data, d) + Away(d)
         /\ Times(free[d[1]], d) \in Nat /\ Holders(data, d) \in Nat /\ Away(d) \in Nat
         /\ InRing(ring, d) \in Nat
<1>1. d[1] \in Pipes /\ free[d[1]] \in Seq(TxData)
  BY DEF BufTypes, TxData
<1>2. Times(free[d[1]], d) \in Nat
  BY <1>1, TimesAppend
<1>3. InRing(ring, d) \in Nat
  <2> DEFINE S == Xfers \X {"ok", "error", "stalled"}
  <2>1. ring \in Seq(S) /\ <<d, "ok">> \in S
    BY DEF BufTypes, Xfers
  <2> HIDE DEF S
  <2>2. QED
    BY <2>1, RingAppend
<1>4. Holders(data, d) \in Nat
  BY HoldersChange, Zenon DEF Threads, Elsewhere
<1>5. One(d \in flying) \in {0, 1} /\ One(d \in lost) \in {0, 1}
  BY DEF One
<1>6. /\ Cardinality({d} \cap flying) = One(d \in flying)
      /\ Cardinality({d} \cap lost) = One(d \in lost)
  BY MemberCount
<1>7. Homes(d) = Times(free[d[1]], d) + Holders(data, d) + InRing(ring, d)
                   + One(d \in flying) + One(d \in lost)
  BY <1>6 DEF Homes, Holders, InRing
<1>8. QED
  BY <1>2, <1>3, <1>4, <1>5, <1>7 DEF Away

\* usbd_ring_post takes one transfer, into the ring or away for good.
LEMMA RingPostAway ==
  ASSUME BufTypes, NEW x \in Xfers, NEW st \in {"ok", "error", "stalled"}, RingPost(x, st),
         NEW d \in TxData
  PROVE  /\ InRing(ring, d)' \in Nat
         /\ d # x => InRing(ring, d)' = InRing(ring, d) /\ (d \in lost' <=> d \in lost)
         /\ d = x /\ d \notin lost =>
              InRing(ring, d)' + One(d \in lost') = InRing(ring, d) + 1
         /\ lost' \subseteq Xfers
         /\ ring' \in Seq(Xfers \X {"ok", "error", "stalled"}) /\ Len(ring') <= RingSize
<1> DEFINE S == Xfers \X {"ok", "error", "stalled"}
           e == <<x, st>>
<1>1. ring \in Seq(S) /\ e \in S /\ e[1] = x /\ Len(ring) \in Nat /\ RingSize \in Nat
  BY ConstantsAssumption DEF BufTypes
<1>2. InRing(ring, d) \in Nat
  BY HomesSplit
<1>3. CASE Len(ring) < RingSize
  <2>1. ring' = Append(ring, e) /\ lost' = lost
    BY <1>3 DEF RingPost
  <2> HIDE DEF S, e
  <2>2. InRing(Append(ring, e), d) = InRing(ring, d) + One(e[1] = d)
    BY <1>1, RingAppend
  <2>3. InRing(ring, d)' = InRing(ring, d) + One(x = d)
    BY <1>1, <2>1, <2>2, Zenon DEF InRing
  <2>4. ring' \in Seq(S) /\ Len(ring') <= RingSize
    BY <1>1, <1>3, <2>1
  <2>5. lost' \subseteq Xfers
    BY <2>1 DEF BufTypes
  <2>6. QED
    BY <1>2, <2>1, <2>3, <2>4, <2>5 DEF One, S
<1>4. CASE ~(Len(ring) < RingSize)
  <2>1. ring' = ring /\ lost' = lost \cup {x}
    BY <1>4 DEF RingPost
  <2>2. InRing(ring, d)' = InRing(ring, d)
    BY <2>1 DEF InRing
  <2>3. QED
    BY <1>2, <2>1, <2>2 DEF One, BufTypes
<1>5. QED
  BY <1>3, <1>4

\* usbd_transfer takes one transfer.
LEMMA TransferAway ==
  ASSUME BufTypes, NEW x \in Xfers, Transfer(x), NEW d \in TxData
  PROVE  /\ d # x => Away(d)' = Away(d)
         /\ d = x /\ d \notin lost /\ d \notin flying => Away(d)' = Away(d) + 1
         /\ lost' \subseteq Xfers /\ flying' \subseteq Xfers
         /\ ring' \in Seq(Xfers \X {"ok", "error", "stalled"}) /\ Len(ring') <= RingSize
<1>0. InRing(ring, d) \in Nat
  BY HomesSplit
<1>1. CASE flying' = flying \cup {x} /\ UNCHANGED <<ring, lost>>
  <2>1. InRing(ring, d)' = InRing(ring, d)
    BY <1>1 DEF InRing
  <2>2. /\ One(d \in lost)' = One(d \in lost)
        /\ d # x => One(d \in flying)' = One(d \in flying)
        /\ d = x /\ d \notin flying => One(d \in flying) = 0 /\ One(d \in flying)' = 1
        /\ One(d \in lost) \in {0, 1} /\ One(d \in flying) \in {0, 1}
    BY <1>1 DEF One
  <2>3. /\ d # x => Away(d)' = Away(d)
        /\ d = x /\ d \notin flying => Away(d)' = Away(d) + 1
    BY <1>0, <2>1, <2>2 DEF Away
  <2>4. QED
    BY <1>1, <2>3 DEF BufTypes
<1>2. CASE RingPost(x, "error") /\ UNCHANGED flying
  <2>1. /\ InRing(ring, d)' \in Nat
        /\ d # x => InRing(ring, d)' = InRing(ring, d) /\ (d \in lost' <=> d \in lost)
        /\ d = x /\ d \notin lost =>
             InRing(ring, d)' + One(d \in lost') = InRing(ring, d) + 1
        /\ lost' \subseteq Xfers
        /\ ring' \in Seq(Xfers \X {"ok", "error", "stalled"}) /\ Len(ring') <= RingSize
    BY <1>2, RingPostAway
  <2>2. /\ One(d \in flying)' = One(d \in flying) /\ One(d \in flying) \in {0, 1}
        /\ (d \in lost' <=> d \in lost) => One(d \in lost)' = One(d \in lost)
        /\ d \notin lost => One(d \in lost) = 0
        /\ One(d \in lost) \in {0, 1} /\ One(d \in lost)' \in {0, 1}
        /\ One(d \in lost)' = One(d \in lost')
    BY <1>2 DEF One
  <2>3. CASE d # x
    BY <1>0, <1>2, <2>1, <2>2, <2>3 DEF Away, BufTypes
  <2>4. CASE d = x /\ d \notin lost
    <3>1. InRing(ring, d)' + One(d \in lost)' = InRing(ring, d) + 1
      BY <2>1, <2>2, <2>4
    <3>2. Away(d)' = Away(d) + 1
      BY <1>0, <2>1, <2>2, <2>4, <3>1 DEF Away
    <3>3. QED
      BY <1>2, <2>1, <2>4, <3>2 DEF BufTypes
  <2>5. QED
    BY <1>2, <2>1, <2>3, <2>4 DEF BufTypes
<1>3. QED
  BY <1>1, <1>2 DEF Transfer

-----------------------------------------------------------------------------
(* The types and the control are kept *)

\* The queues never hold more frames than were queued.
LEMMA QueueStep == QueueTypes /\ [Next]_vars => QueueTypes'
<1> SUFFICES ASSUME QueueTypes, [Next]_vars PROVE QueueTypes'
  OBVIOUS
<1>1. CASE UNCHANGED <<mgtq, snd, fed>>
  BY <1>1 DEF QueueTypes
<1>2. ASSUME NEW t \in Threads, Dequeue(t) PROVE QueueTypes'
  BY <1>2 DEF Dequeue, QueueTypes
<1>3. ASSUME NEW t \in Threads, Xmit(t) \/ MgmtOutput(t) PROVE QueueTypes'
  BY <1>3, ConstantsAssumption DEF Xmit, MgmtOutput, QueueTypes
<1>4. QED
  BY <1>1, <1>2, <1>3, Zenon
  DEF Next, vars, StartSteps, Lock, Start, Poll, GetTxData, SetOactive, Drop, KeyMissing, Tx,
      Return, UrbSteps, UrbTake, TxPut, TxClear, RxInput, RxResubmit, RxStalled, Complete,
      Threads

\* A step moves at most one thread.
LEMMA Moves ==
  ASSUME CtlTypes, NEW t \in Threads, StartSteps(t) \/ Xmit(t) \/ MgmtOutput(t)
  PROVE  \E l \in Labels : /\ pc' = [pc EXCEPT ![t] = l] /\ pc'[t] = l
                           /\ \A u \in Threads : u # t => pc'[u] = pc[u]
<1>1. PICK l \in Labels : pc' = [pc EXCEPT ![t] = l]
  BY Zenon
  DEF StartSteps, Lock, Start, Poll, GetTxData, SetOactive, Dequeue, Drop, KeyMissing, Tx,
      Return, Xmit, MgmtOutput, Goto, Labels
<1>2. QED
  BY <1>1, Zenon DEF CtlTypes

\* A step of the URB worker moves the URB worker only.
LEMMA UrbMoves ==
  ASSUME CtlTypes, UrbSteps
  PROVE  \E l \in Labels : /\ pc' = [pc EXCEPT ![Urbw] = l] /\ pc'[Urbw] = l
                           /\ \A u \in Threads : u # Urbw => pc'[u] = pc[u]
<1>1. PICK l \in Labels : pc' = [pc EXCEPT ![Urbw] = l]
  BY DEF UrbSteps, UrbTake, TxPut, TxClear, RxInput, RxResubmit, RxStalled, Goto, Labels
<1>2. QED
  BY <1>1, Zenon DEF CtlTypes, Threads

\* Every step keeps the types of the control state.
LEMMA CtlStep == CtlTypes /\ BufTypes /\ [Next]_vars => CtlTypes'
<1> SUFFICES ASSUME CtlTypes, BufTypes, [Next]_vars PROVE CtlTypes'
  OBVIOUS
<1>1. ASSUME NEW t \in Threads, StartSteps(t) \/ Xmit(t) \/ MgmtOutput(t) PROVE CtlTypes'
  <2>1. pc' \in [Threads -> Labels]
    BY <1>1, Moves DEF CtlTypes
  <2>2. oactive' \in BOOLEAN
    BY <1>1, Zenon
    DEF CtlTypes, StartSteps, Lock, Start, Poll, GetTxData, SetOactive, Dequeue, Drop,
        KeyMissing, Tx, Return, Xmit, MgmtOutput
  <2>3. /\ fault' \subseteq {"null", "key"} /\ ser' \in Threads \cup {"none"}
        /\ UNCHANGED <<status, rx>>
    BY <1>1, Zenon
    DEF CtlTypes, StartSteps, Lock, Start, Poll, GetTxData, SetOactive, Dequeue, Drop,
        KeyMissing, Tx, Return, Xmit, MgmtOutput
  <2>4. qof' \in [Threads -> {"none", "mgt", "snd"}]
    <3>1. qof' = qof \/ \E q \in {"none", "mgt", "snd"} : qof' = [qof EXCEPT ![t] = q]
      <4>1. CASE Poll(t) \/ Return(t)
        BY <4>1 DEF Poll, Return
      <4>2. CASE ~(Poll(t) \/ Return(t))
        BY <1>1, <4>2, Zenon
        DEF StartSteps, Lock, Start, GetTxData, SetOactive, Dequeue, Drop, KeyMissing, Tx,
            Xmit, MgmtOutput
      <4>3. QED
        BY <4>1, <4>2
    <3>2. QED
      BY <3>1 DEF CtlTypes
  <2>5. QED
    BY <2>1, <2>2, <2>3, <2>4 DEF CtlTypes
<1>2. CASE UrbSteps
  <2>1. pc' \in [Threads -> Labels]
    BY <1>2, UrbMoves DEF CtlTypes
  <2>2. oactive' \in BOOLEAN
    BY <1>2, Zenon
    DEF CtlTypes, UrbSteps, UrbTake, TxPut, TxClear, RxInput, RxResubmit, RxStalled
  <2>3. UNCHANGED <<fault, ser, qof>>
    BY <1>2 DEF UrbSteps, UrbTake, TxPut, TxClear, RxInput, RxResubmit, RxStalled
  <2>4. status' \in {"none", "ok", "error", "stalled"} /\ rx' \in {None, Rx}
    <3>1. CASE UrbTake
      <4>1. ring # <<>> /\ Head(ring) \in Xfers \X {"ok", "error", "stalled"}
        BY <3>1 DEF UrbTake, BufTypes
      <4>2. QED
        BY <3>1, <4>1 DEF UrbTake, CtlTypes
    <3>2. CASE TxPut \/ TxClear \/ RxInput \/ RxResubmit \/ RxStalled
      BY <3>2 DEF TxPut, TxClear, RxInput, RxResubmit, RxStalled, CtlTypes
    <3>3. QED
      BY <1>2, <3>1, <3>2 DEF UrbSteps
  <2>5. QED
    BY <2>1, <2>2, <2>3, <2>4 DEF CtlTypes
<1>3. CASE (\E x \in Xfers : Complete(x)) \/ UNCHANGED vars
  BY <1>3, Zenon DEF Complete, vars, CtlTypes
<1>4. QED
  BY <1>1, <1>2, <1>3 DEF Next, Threads

-----------------------------------------------------------------------------
(* The tx_data *)

Buffers == BufTypes /\ Held /\ AtHome /\ OneHome

\* Held, for a step in which one thread moves.
LEMMA HeldBy ==
  ASSUME Held, NEW t \in Threads, NEW l \in Labels,
         pc'[t] = l, \A u \in Threads : u # t => pc'[u] = pc[u] /\ data'[u] = data[u],
         l \in Holding => data'[t] # None,
         l \notin Holding \cup {"dead"} => data'[t] = None,
         pc'[Urbw] \in {"input", "resubmit"} => rx' # None
  PROVE  Held'
  BY DEF Held, Threads

\* Steps that touch no tx_data.
LEMMA NothingMoves ==
  ASSUME Inv, UNCHANGED <<free, flying, ring, lost, data>>, fault \subseteq fault'
  PROVE  BufTypes' /\ AtHome' /\ OneHome'
<1>1. BufTypes' /\ AtHome'
  BY DEF Inv, Types, BufTypes, AtHome
<1>2. OneHome'
  BY DEF Inv, OneHome, BuffersBack, Homes, Times
<1>3. QED
  BY <1>1, <1>2

\* Steps of a sending thread that touch no tx_data.
LEMMA QuietStart ==
  ASSUME Inv, NEW t \in Threads,
         \/ Lock(t) \/ Start(t) \/ Poll(t) \/ SetOactive(t) \/ Dequeue(t) \/ Return(t)
         \/ Xmit(t) \/ MgmtOutput(t)
  PROVE  Buffers'
<1>1. PICK l \in Labels : /\ pc' = [pc EXCEPT ![t] = l] /\ pc'[t] = l
                          /\ \A u \in Threads : u # t => pc'[u] = pc[u]
  BY Moves, SMTT(30) DEF Inv, Types, StartSteps
<1>2. UNCHANGED <<free, flying, ring, lost, data, rx>> /\ fault \subseteq fault'
  BY SMTT(40) DEF Lock, Start, Poll, SetOactive, Dequeue, Return, Xmit, MgmtOutput
<1>3. /\ l \in Holding \cup {"dead"} => pc[t] \in Holding
      /\ l \notin Holding \cup {"dead"} => pc[t] \notin Holding \cup {"dead"}
      /\ t = Urbw /\ l \in {"input", "resubmit"} => rx # None
  BY <1>1, SMTT(30)
  DEF Lock, Start, Poll, SetOactive, Dequeue, Return, Xmit, MgmtOutput, Goto, Holding, Inv,
      Types, CtlTypes
<1>4. Held'
  <2>1. pc'[Urbw] \in {"input", "resubmit"} => rx' # None
    BY <1>1, <1>2, <1>3 DEF Inv, Held, Threads
  <2>2. /\ l \in Holding => data'[t] # None
        /\ l \notin Holding \cup {"dead"} => data'[t] = None
    BY <1>2, <1>3 DEF Inv, Held
  <2>3. QED
    BY <1>1, <1>2, <2>1, <2>2, HeldBy, SMTT(40) DEF Inv
<1>5. QED
  BY <1>2, <1>4, NothingMoves DEF Buffers

\* Steps of the URB worker that touch no tx_data.
LEMMA QuietUrb ==
  ASSUME Inv, TxClear \/ RxInput \/ RxStalled
  PROVE  Buffers'
<1>1. PICK l \in Labels : /\ pc' = [pc EXCEPT ![Urbw] = l] /\ pc'[Urbw] = l
                          /\ \A u \in Threads : u # Urbw => pc'[u] = pc[u]
  BY UrbMoves DEF Inv, Types, UrbSteps
<1>2. UNCHANGED <<free, flying, ring, lost, data, fault>> /\ Urbw \in Threads
  BY DEF TxClear, RxInput, RxStalled, Threads
<1>3. /\ l \notin Holding \cup {"dead"} /\ pc[Urbw] \notin Holding \cup {"dead"}
      /\ l \in {"input", "resubmit"} => rx' # None
  BY <1>1, <1>2 DEF TxClear, RxInput, RxStalled, Goto, Holding, Inv, Types, CtlTypes, Held
<1>4. Held'
  <2>1. data'[Urbw] = None
    BY <1>2, <1>3, SMTT(30) DEF Inv, Held
  <2>2. QED
    BY <1>1, <1>2, <1>3, <2>1, HeldBy DEF Inv
<1>5. QED
  BY <1>2, <1>4, NothingMoves DEF Buffers

\* Where a tx_data is after a step.
LEMMA HomesNext ==
  ASSUME BufTypes', NEW d \in TxData
  PROVE  /\ Homes(d)' = Times(free'[d[1]], d) + Holders(data', d) + Away(d)'
         /\ Times(free'[d[1]], d) \in Nat /\ Holders(data', d) \in Nat /\ Away(d)' \in Nat
<1>1. d[1] \in Pipes /\ free'[d[1]] \in Seq(TxData)
  BY DEF BufTypes, TxData
<1>2. Times(free'[d[1]], d) \in Nat
  BY <1>1, TimesAppend
<1>3. InRing(ring', d) \in Nat
  <2> DEFINE S == Xfers \X {"ok", "error", "stalled"}
  <2>1. ring' \in Seq(S) /\ <<d, "ok">> \in S
    BY DEF BufTypes, Xfers
  <2> HIDE DEF S
  <2>2. QED
    BY <2>1, RingAppend
<1>4. Holders(data', d) \in Nat
  BY HoldersChange, Zenon DEF Threads, Elsewhere
<1>5. One(d \in flying') \in {0, 1} /\ One(d \in lost') \in {0, 1}
  BY DEF One
<1>6. /\ Cardinality({d} \cap flying') = One(d \in flying')
      /\ Cardinality({d} \cap lost') = One(d \in lost')
  BY MemberCount
<1>7. Homes(d)' = Times(free'[d[1]], d) + Holders(data', d) + InRing(ring', d)
                   + One(d \in flying') + One(d \in lost')
  BY <1>6 DEF Homes, Holders, InRing, Times
<1>8. Away(d)' = InRing(ring', d) + One(d \in flying') + One(d \in lost')
  BY DEF Away, InRing, One
<1>9. QED
  BY <1>2, <1>3, <1>4, <1>5, <1>7, <1>8

\* A transfer is never the empty pair, and the receive transfer is no tx_data.
LEMMA Apart == None \notin TxData /\ Rx \notin TxData /\ Rx # None
<1>1. \A d \in TxData : d # <<>>
  BY DEF TxData
<1>2. NTx \notin Pipes
  BY ConstantsAssumption DEF Pipes
<1>3. QED
  BY <1>1, <1>2 DEF None, Rx, TxData

\* With a thread's tx_data put back on its list, nothing is shared or forgotten.
LEMMA GivesBack ==
  ASSUME Inv, NEW t \in Threads, data[t] # None, Put(data[t]),
         data' = [data EXCEPT ![t] = None], UNCHANGED <<flying, ring, lost>>, fault' = fault
  PROVE  BufTypes' /\ AtHome' /\ OneHome'
<1> DEFINE x == data[t]
           p == x[1]
<1>1. x \in TxData /\ p \in Pipes /\ free[p] \in Seq(TxData) /\ BufTypes
  BY DEF Inv, Types, BufTypes, TxData
<1>2. /\ free'[p] = Append(free[p], x) /\ free'[p] \in Seq(TxData)
      /\ \A q \in Pipes : q # p => free'[q] = free[q]
      /\ free' \in [Pipes -> Seq(TxData)]
  BY <1>1 DEF Put, BufTypes
<1>3. BufTypes'
  BY <1>1, <1>2 DEF BufTypes
<1>4. AtHome'
  <2>1. \A i \in 1 .. Len(free'[p]) : free'[p][i][1] = p
    BY <1>1, <1>2, SMTT(30) DEF Inv, AtHome
  <2>2. QED
    BY <1>2, <2>1, Zenon DEF Inv, AtHome
<1>5. ASSUME NEW d \in TxData, Homes(d) = 1 PROVE Homes(d)' = 1
  <2>1. Away(d)' = Away(d)
    BY DEF Away, InRing, One
  <2>2. Times(free'[d[1]], d) = Times(free[d[1]], d) + One(x = d)
    <3>1. Times(Append(free[p], x), d) = Times(free[p], d) + One(x = d)
      BY <1>1, TimesAppend
    <3>2. CASE d[1] = p
      BY <1>2, <3>1, <3>2, Zenon
    <3>3. CASE d[1] # p
      <4>1. One(x = d) = 0 /\ d[1] \in Pipes
        BY <3>3 DEF One, TxData
      <4>2. Times(free[d[1]], d) \in Nat
        BY <1>1, HomesSplit, SMTT(30)
      <4>3. free'[d[1]] = free[d[1]]
        BY <1>2, <3>3, <4>1
      <4>4. QED
        BY <4>1, <4>2, <4>3
    <3>4. QED
      BY <3>2, <3>3
  <2>3. Holders(data', d) = Holders(data, d) - One(x = d)
    <3>1. None # d /\ data'[t] = None /\ Elsewhere(data, data', t)
      BY <1>1, Apart DEF BufTypes, Elsewhere
    <3>2. /\ data[t] = d /\ data'[t] # d => Holders(data', d) = Holders(data, d) - 1
          /\ (data[t] = d <=> data'[t] = d) => Holders(data', d) = Holders(data, d)
      BY <3>1, HoldersStep, Zenon
    <3>3. Holders(data, d) \in Nat
      BY <1>1, HomesSplit
    <3>4. QED
      BY <3>1, <3>2, <3>3 DEF One
  <2>4. One(x = d) \in {0, 1}
    BY SMTT(30) DEF One
  <2>5. /\ Homes(d) = Times(free[d[1]], d) + Holders(data, d) + Away(d)
        /\ Times(free[d[1]], d) \in Nat /\ Holders(data, d) \in Nat /\ Away(d) \in Nat
    BY <1>1, HomesSplit
  <2>6. Homes(d)' = Times(free'[d[1]], d) + Holders(data', d) + Away(d)'
    BY <1>3, HomesNext, Zenon
  <2> HIDE DEF x
  <2>7. QED
    BY <1>5, <2>1, <2>2, <2>3, <2>4, <2>5, <2>6
<1>6. OneHome'
  BY <1>5 DEF Inv, OneHome, BuffersBack
<1>7. QED
  BY <1>3, <1>4, <1>6

\* A step that moves a tx_data from one place to another keeps the count.
LEMMA Balance ==
  ASSUME BufTypes, BufTypes', NEW d \in TxData, Homes(d) = 1,
         Times(free'[d[1]], d) + Holders(data', d) + Away(d)'
           = Times(free[d[1]], d) + Holders(data, d) + Away(d)
  PROVE  Homes(d)' = 1
<1>1. Homes(d) = Times(free[d[1]], d) + Holders(data, d) + Away(d)
  BY HomesSplit
<1>2. Homes(d)' = Times(free'[d[1]], d) + Holders(data', d) + Away(d)'
  BY HomesNext
<1>3. QED
  BY <1>1, <1>2, SMTT(30)

\* A tx_data in the hands of a thread is nowhere else.
LEMMA HeldOnce ==
  ASSUME BufTypes, NEW t \in Threads, NEW d \in TxData, data[t] = d, Homes(d) = 1
  PROVE  d \notin flying /\ d \notin lost
<1>1. Elsewhere(data, data, t)
  BY SMTT(30) DEF Elsewhere
<1>2. Holders(data, d) >= 1
  BY <1>1, HoldersChange, SMTT(30)
<1>3. /\ Homes(d) = Times(free[d[1]], d) + Holders(data, d) + Away(d)
      /\ Times(free[d[1]], d) \in Nat /\ Holders(data, d) \in Nat /\ Away(d) \in Nat
      /\ InRing(ring, d) \in Nat
  BY HomesSplit
<1>4. Away(d) = 0
  BY <1>2, <1>3
<1>5. One(d \in flying) \in {0, 1} /\ One(d \in lost) \in {0, 1}
  BY SMTT(30) DEF One
<1>6. One(d \in flying) = 0 /\ One(d \in lost) = 0
  BY <1>3, <1>4, <1>5 DEF Away
<1>7. QED
  BY <1>6 DEF One

\* urtwn_get_tx_data.
LEMMA GetStep ==
  ASSUME Inv, NEW t \in Threads, GetTxData(t)
  PROVE  BufTypes' /\ AtHome' /\ OneHome'
<1> DEFINE p == ac2idx(qof[t])
           x == Head(free[p])
<1>1. p \in Pipes /\ free[p] \in Seq(TxData) /\ BufTypes /\ data[t] = None
  <2>1. p \in Pipes
    BY ConstantsAssumption DEF ac2idx, Pipes
  <2>2. QED
    BY <2>1, SMTT(30) DEF Inv, Types, BufTypes, GetTxData, Held, Holding
<1>2. CASE free[p] = <<>>
  <2>1. UNCHANGED <<free, flying, ring, lost, data>> /\ fault' = fault
    BY <1>2 DEF GetTxData
  <2>2. QED
    BY <2>1, NothingMoves, SMTT(30)
<1>3. CASE free[p] # <<>>
  <2>1. /\ data' = [data EXCEPT ![t] = x] /\ free' = [free EXCEPT ![p] = Tail(free[p])]
        /\ UNCHANGED <<flying, ring, lost, fault>>
    BY <1>3 DEF GetTxData
  <2>2. x \in TxData /\ x[1] = p
    BY <1>1, <1>3 DEF Inv, AtHome
  <2>3. /\ free'[p] = Tail(free[p]) /\ free'[p] \in Seq(TxData)
        /\ \A q \in Pipes : q # p => free'[q] = free[q]
        /\ free' \in [Pipes -> Seq(TxData)]
    BY <1>1, <1>3, <2>1, SMTT(30) DEF BufTypes
  <2>4. /\ data'[t] = x /\ Elsewhere(data, data', t)
        /\ data' \in [Threads -> TxData \cup {None}]
    BY <1>1, <2>1, <2>2 DEF BufTypes, Elsewhere
  <2> HIDE DEF p, x
  <2>5. BufTypes'
    BY <1>1, <2>1, <2>3, <2>4 DEF BufTypes
  <2>6. AtHome'
    <3>1. \A i \in 1 .. Len(free'[p]) : free'[p][i][1] = p
      BY <1>1, <1>3, <2>3, SMTT(30) DEF Inv, AtHome
    <3>2. QED
      BY <2>3, <3>1, Zenon DEF Inv, AtHome
  <2>7. ASSUME NEW d \in TxData, Homes(d) = 1 PROVE Homes(d)' = 1
    <3>1. Away(d)' = Away(d)
      BY <2>1, SMTT(30) DEF Away, InRing, One
    <3>2. Times(free[d[1]], d) \in Nat /\ Holders(data, d) \in Nat /\ Away(d) \in Nat
      BY <1>1, HomesSplit, SMTT(30)
    <3>3. Times(free'[d[1]], d) = Times(free[d[1]], d) - One(x = d)
      <4>1. Times(Tail(free[p]), d) = Times(free[p], d) - One(x = d)
        BY <1>1, <1>3, TimesTail DEF x
      <4>2. CASE d[1] = p
        BY <2>3, <4>1, <4>2
      <4>3. CASE d[1] # p
        <5>1. One(x = d) = 0 /\ d[1] \in Pipes
          BY <2>2, <4>3 DEF One, TxData
        <5>2. free'[d[1]] = free[d[1]]
          BY <2>3, <4>3, <5>1, SMTT(30)
        <5>3. QED
          BY <3>2, <5>1, <5>2
      <4>4. QED
        BY <4>2, <4>3, SMTT(30)
    <3>4. Holders(data', d) = Holders(data, d) + One(x = d)
      <4>1. data[t] # d
        BY <1>1, Apart
      <4>2. /\ data[t] # d /\ data'[t] = d => Holders(data', d) = Holders(data, d) + 1
            /\ (data[t] = d <=> data'[t] = d) => Holders(data', d) = Holders(data, d)
        BY <2>4, HoldersStep
      <4>3. QED
        BY <2>4, <3>2, <4>1, <4>2 DEF One
    <3>5. One(x = d) \in {0, 1}
      BY SMTT(30) DEF One
    <3>6. Times(free'[d[1]], d) + Holders(data', d) + Away(d)'
            = Times(free[d[1]], d) + Holders(data, d) + Away(d)
      BY <3>1, <3>2, <3>3, <3>4, <3>5
    <3>7. QED
      BY <1>1, <2>5, <2>7, <3>6, Balance, SMTT(30)
  <2>8. QED
    BY <2>1, <2>5, <2>6, <2>7 DEF Inv, OneHome, BuffersBack
<1>4. QED
  BY <1>2, <1>3, SMTT(30)

\* urtwn_tx hands the thread's tx_data to usbd_transfer.
LEMMA TxStep ==
  ASSUME Inv, NEW t \in Threads, Tx(t)
  PROVE  BufTypes' /\ AtHome' /\ OneHome'
<1> DEFINE x == data[t]
<1>1. BufTypes /\ x # None /\ x \in TxData /\ x \in Xfers
  BY DEF Inv, Types, BufTypes, Tx, Held, Holding, Xfers
<1>2. /\ data' = [data EXCEPT ![t] = None] /\ UNCHANGED <<free, fault>> /\ Transfer(x)
  BY DEF Tx
<1>3. /\ data'[t] = None /\ Elsewhere(data, data', t)
      /\ data' \in [Threads -> TxData \cup {None}]
  BY <1>1, <1>2 DEF BufTypes, Elsewhere
<1> HIDE DEF x
<1>4. /\ lost' \subseteq Xfers /\ flying' \subseteq Xfers
      /\ ring' \in Seq(Xfers \X {"ok", "error", "stalled"}) /\ Len(ring') <= RingSize
  BY <1>1, <1>2, TransferAway, SMTT(30)
<1>5. BufTypes' /\ AtHome'
  BY <1>1, <1>2, <1>3, <1>4 DEF BufTypes, AtHome, Inv
<1>6. ASSUME NEW d \in TxData, Homes(d) = 1 PROVE Homes(d)' = 1
  <2>1. /\ Times(free[d[1]], d) \in Nat /\ Holders(data, d) \in Nat /\ Away(d) \in Nat
        /\ Times(free'[d[1]], d) = Times(free[d[1]], d)
    BY <1>1, <1>2, HomesSplit
  <2>2. /\ data[t] = d /\ data'[t] # d => Holders(data', d) = Holders(data, d) - 1
        /\ (data[t] = d <=> data'[t] = d) => Holders(data', d) = Holders(data, d)
    BY <1>3, HoldersStep
  <2>3. data'[t] # d
    BY <1>3, Apart, SMTT(30)
  <2>4. CASE d = x
    <3>1. Holders(data', d) = Holders(data, d) - 1
      BY <2>2, <2>3, <2>4 DEF x
    <3>2. d \notin flying /\ d \notin lost
      BY <1>1, <1>6, <2>4, HeldOnce DEF x
    <3>3. Away(d)' = Away(d) + 1
      BY <1>1, <1>2, <2>4, <3>2, TransferAway, SMTT(30)
    <3>4. Times(free'[d[1]], d) + Holders(data', d) + Away(d)'
            = Times(free[d[1]], d) + Holders(data, d) + Away(d)
      BY <2>1, <3>1, <3>3
    <3>5. QED
      BY <1>1, <1>5, <1>6, <3>4, Balance
  <2>5. CASE d # x
    <3>1. Holders(data', d) = Holders(data, d)
      BY <2>2, <2>3, <2>5 DEF x
    <3>2. Away(d)' = Away(d)
      BY <1>1, <1>2, <2>5, TransferAway, SMTT(30)
    <3>3. Times(free'[d[1]], d) + Holders(data', d) + Away(d)'
            = Times(free[d[1]], d) + Holders(data, d) + Away(d)
      BY <2>1, <3>1, <3>2
    <3>4. QED
      BY <1>1, <1>5, <1>6, <3>3, Balance
  <2>6. QED
    BY <2>4, <2>5, SMTT(30)
<1>7. QED
  BY <1>2, <1>5, <1>6 DEF Inv, OneHome, BuffersBack

\* A frame without a key: the tx_data is put back twice, which OneHome excepts.
LEMMA KeyStep ==
  ASSUME Inv, NEW t \in Threads, KeyMissing(t)
  PROVE  BufTypes' /\ AtHome' /\ OneHome'
<1> DEFINE x == data[t]
           p == x[1]
<1>1. BufTypes /\ x # None /\ x \in TxData /\ p \in Pipes /\ free[p] \in Seq(TxData)
  BY SMTT(30) DEF Inv, Types, BufTypes, KeyMissing, Held, Holding, TxData
<1>2. /\ data' = [data EXCEPT ![t] = None] /\ UNCHANGED <<flying, ring, lost>>
      /\ free' = [free EXCEPT ![p] = @ \o <<x, x>>] /\ "key" \in fault'
  BY SMTT(30) DEF KeyMissing
<1>3. data' \in [Threads -> TxData \cup {None}]
  BY <1>1, <1>2 DEF BufTypes
<1> HIDE DEF x
<1>4. /\ free[p] \o <<x, x>> \in Seq(TxData)
      /\ \A i \in 1 .. Len(free[p] \o <<x, x>>) :
           (free[p] \o <<x, x>>)[i] = x \/ (i \in 1 .. Len(free[p]) /\ (free[p] \o <<x, x>>)[i] = free[p][i])
  BY <1>1, SMTT(30)
<1>5. /\ free'[p] = free[p] \o <<x, x>> /\ free' \in [Pipes -> Seq(TxData)]
      /\ \A q \in Pipes : q # p => free'[q] = free[q]
  BY <1>1, <1>2, <1>4, SMTT(30) DEF BufTypes
<1>6. BufTypes'
  BY <1>1, <1>2, <1>3, <1>5 DEF BufTypes
<1>7. AtHome'
  <2>1. \A i \in 1 .. Len(free'[p]) : free'[p][i][1] = p
    BY <1>1, <1>4, <1>5, SMTT(30) DEF Inv, AtHome
  <2>2. QED
    BY <1>5, <2>1, Zenon DEF Inv, AtHome
<1>8. QED
  BY <1>2, <1>6, <1>7, SMTT(30) DEF OneHome

\* The URB worker takes a completion: of a tx_data, or of the receive transfer.
LEMMA UrbTakeStep ==
  ASSUME Inv, UrbTake
  PROVE  BufTypes' /\ AtHome' /\ OneHome'
<1> DEFINE S == Xfers \X {"ok", "error", "stalled"}
           x == Head(ring)[1]
<1>1. BufTypes /\ ring \in Seq(S) /\ ring # <<>> /\ Head(ring) \in S /\ x \in Xfers
  BY SMTT(30) DEF Inv, Types, BufTypes, UrbTake
<1>2. Urbw \in Threads /\ data[Urbw] = None
  BY SMTT(30) DEF Inv, Held, UrbTake, Holding, Threads
<1>3. /\ ring' = Tail(ring) /\ UNCHANGED <<free, flying, lost, fault>>
      /\ x = Rx => data' = data
      /\ x # Rx => data' = [data EXCEPT ![Urbw] = x]
  BY DEF UrbTake
<1>4. /\ Tail(ring) \in Seq(S) /\ Len(Tail(ring)) <= RingSize
  <2>1. Len(ring) \in Nat /\ Len(ring) <= RingSize /\ RingSize \in Nat
    BY <1>1, ConstantsAssumption DEF BufTypes
  <2> HIDE DEF S
  <2>2. Tail(ring) \in Seq(S) /\ Len(Tail(ring)) = Len(ring) - 1
    BY <1>1
  <2>3. QED
    BY <2>1, <2>2
<1> HIDE DEF x
<1>5. /\ data' \in [Threads -> TxData \cup {None}] /\ Elsewhere(data, data', Urbw)
      /\ data'[Urbw] = IF x = Rx THEN None ELSE x
  BY <1>1, <1>2, <1>3, Zenon DEF BufTypes, Elsewhere, Xfers
<1>6. BufTypes' /\ AtHome'
  BY <1>1, <1>3, <1>4, <1>5, SMTT(30) DEF BufTypes, AtHome, Inv
<1>7. ASSUME NEW d \in TxData, Homes(d) = 1 PROVE Homes(d)' = 1
  <2>1. /\ Times(free[d[1]], d) \in Nat /\ Holders(data, d) \in Nat /\ Away(d) \in Nat
        /\ Times(free'[d[1]], d) = Times(free[d[1]], d) /\ InRing(ring, d) \in Nat
    BY <1>1, <1>3, HomesSplit
  <2>2. /\ data[Urbw] # d /\ data'[Urbw] = d => Holders(data', d) = Holders(data, d) + 1
        /\ (data[Urbw] = d <=> data'[Urbw] = d) => Holders(data', d) = Holders(data, d)
    BY <1>2, <1>5, HoldersStep
  <2>3. data[Urbw] # d /\ d # Rx /\ d # None
    BY <1>2, Apart, SMTT(30)
  <2>4. Holders(data', d) = Holders(data, d) + One(x = d)
    BY <1>5, <2>1, <2>2, <2>3, SMTT(30) DEF One
  <2>5. InRing(ring', d) = InRing(ring, d) - One(x = d)
    <3> HIDE DEF S
    <3>1. InRing(Tail(ring), d) = InRing(ring, d) - One(Head(ring)[1] = d)
      BY <1>1, RingTail
    <3>2. QED
      BY <1>3, <3>1 DEF x
  <2>6. One(x = d) \in {0, 1} /\ One(d \in flying) \in {0, 1} /\ One(d \in lost) \in {0, 1}
    BY DEF One
  <2>7. Away(d)' = InRing(ring', d) + One(d \in flying) + One(d \in lost)
    BY <1>3, SMTT(30) DEF Away, InRing, One
  <2>8. Away(d)' = Away(d) - One(x = d)
    BY <2>1, <2>5, <2>6, <2>7, SMTT(30) DEF Away
  <2>9. Times(free'[d[1]], d) + Holders(data', d) + Away(d)'
          = Times(free[d[1]], d) + Holders(data, d) + Away(d)
    BY <2>1, <2>4, <2>6, <2>8
  <2>10. QED
    BY <1>1, <1>6, <1>7, <2>9, Balance, SMTT(30)
<1>8. QED
  BY <1>3, <1>6, <1>7 DEF Inv, OneHome, BuffersBack

\* The receive transfer goes back to the controller: no tx_data moves.
LEMMA RxStep ==
  ASSUME Inv, RxResubmit
  PROVE  BufTypes' /\ AtHome' /\ OneHome'
<1>1. BufTypes /\ Transfer(Rx) /\ Rx \in Xfers /\ UNCHANGED <<free, data, fault>>
  BY DEF Inv, Types, CtlTypes, Held, RxResubmit, Xfers
<1>2. <<0, 1>> \in TxData
  BY ConstantsAssumption DEF TxData, Pipes
<1>3. /\ lost' \subseteq Xfers /\ flying' \subseteq Xfers
      /\ ring' \in Seq(Xfers \X {"ok", "error", "stalled"}) /\ Len(ring') <= RingSize
  BY <1>1, <1>2, TransferAway, SMTT(30)
<1>4. BufTypes' /\ AtHome'
  BY <1>1, <1>3, SMTT(30) DEF BufTypes, AtHome, Inv
<1>5. ASSUME NEW d \in TxData, Homes(d) = 1 PROVE Homes(d)' = 1
  <2>1. Away(d)' = Away(d)
    BY <1>1, Apart, TransferAway
  <2>2. Times(free'[d[1]], d) + Holders(data', d) + Away(d)'
          = Times(free[d[1]], d) + Holders(data, d) + Away(d)
    BY <1>1, <2>1
  <2>3. QED
    BY <1>1, <1>4, <1>5, <2>2, Balance
<1>6. QED
  BY <1>1, <1>4, <1>5 DEF Inv, OneHome, BuffersBack

\* One entry more in the ring, or one transfer more lost, for one less flying.
LEMMA OneMoved ==
  ASSUME NEW i \in Nat, NEW j \in Nat, NEW l \in {0, 1}, j + l = i + 1
  PROVE  j + 0 + l = i + 1 + 0
  OBVIOUS

\* The interrupt posts the completion of a transfer the controller had.
LEMMA CompleteStep ==
  ASSUME Inv, NEW x \in Xfers, Complete(x)
  PROVE  BufTypes' /\ AtHome' /\ OneHome'
<1>1. BufTypes /\ x \in flying /\ flying' = flying \ {x} /\ UNCHANGED <<free, data, fault>>
  BY DEF Inv, Types, Complete
<1>2. PICK st \in {"ok", "error", "stalled"} : RingPost(x, st)
  BY DEF Complete
<1>3. <<0, 1>> \in TxData
  BY ConstantsAssumption DEF TxData, Pipes
<1>4. /\ lost' \subseteq Xfers
      /\ ring' \in Seq(Xfers \X {"ok", "error", "stalled"}) /\ Len(ring') <= RingSize
  BY <1>1, <1>2, <1>3, RingPostAway, SMTT(30)
<1>5. BufTypes' /\ AtHome'
  BY <1>1, <1>4, SMTT(30) DEF BufTypes, AtHome, Inv
<1>6. ASSUME NEW d \in TxData, Homes(d) = 1 PROVE Homes(d)' = 1
  <2>1. /\ Homes(d) = Times(free[d[1]], d) + Holders(data, d) + Away(d)
        /\ Times(free[d[1]], d) \in Nat /\ Holders(data, d) \in Nat /\ Away(d) \in Nat
        /\ InRing(ring, d) \in Nat
    BY <1>1, HomesSplit
  <2>2. One(d \in flying) \in {0, 1} /\ One(d \in lost) \in {0, 1}
    BY DEF One
  <2>3. d = x => d \notin lost
    <3>1. d = x => One(d \in flying) = 1
      BY <1>1, SMTT(30) DEF One
    <3>2. d = x => One(d \in lost) = 0
      BY <1>6, <2>1, <2>2, <3>1, SMTT(30) DEF Away
    <3>3. QED
      BY <3>2 DEF One
  <2>4. /\ InRing(ring, d)' \in Nat
        /\ d # x => InRing(ring, d)' = InRing(ring, d) /\ (d \in lost' <=> d \in lost)
        /\ d = x => InRing(ring, d)' + One(d \in lost') = InRing(ring, d) + 1
    BY <1>1, <1>2, <2>3, RingPostAway
  <2>5. /\ d = x => One(d \in flying) = 1 /\ One(d \in flying') = 0 /\ One(d \in lost) = 0
        /\ d # x => One(d \in flying') = One(d \in flying)
        /\ (d \in lost' <=> d \in lost) => One(d \in lost') = One(d \in lost)
        /\ One(d \in lost') \in {0, 1}
    BY <1>1, <2>3, SMTT(40) DEF One
  <2>6. Away(d)' = InRing(ring, d)' + One(d \in flying') + One(d \in lost')
    BY DEF Away, One
  <2>7. Away(d)' = Away(d)
    <3>1. Away(d) = InRing(ring, d) + One(d \in flying) + One(d \in lost)
      BY Zenon DEF Away
    <3>2. ASSUME d = x PROVE Away(d)' = Away(d)
      <4>1. InRing(ring, d)' + 0 + One(d \in lost') = InRing(ring, d) + 1 + 0
        BY <2>1, <2>4, <2>5, <3>2, OneMoved
      <4>2. One(d \in flying') = 0 /\ One(d \in flying) = 1 /\ One(d \in lost) = 0
        BY <2>5, <3>2, Zenon
      <4>3. QED
        BY <2>6, <3>1, <4>1, <4>2, Zenon
    <3>3. ASSUME d # x PROVE Away(d)' = Away(d)
      <4>1. /\ InRing(ring, d)' = InRing(ring, d)
            /\ One(d \in flying') = One(d \in flying) /\ One(d \in lost') = One(d \in lost)
        BY <2>4, <2>5, <3>3, Zenon
      <4>2. QED
        BY <2>6, <3>1, <4>1, Zenon
    <3>4. QED
      BY <3>2, <3>3, Zenon
  <2>8. Times(free'[d[1]], d) + Holders(data', d) + Away(d)'
          = Times(free[d[1]], d) + Holders(data, d) + Away(d)
    BY <1>1, <2>7
  <2>9. QED
    BY <1>1, <1>5, <1>6, <2>8, Balance, SMTT(30)
<1>7. QED
  BY <1>1, <1>5, <1>6 DEF Inv, OneHome, BuffersBack

\* The steps of urtwn_start that take or give a tx_data.
LEMMA BusyStart ==
  ASSUME Inv, NEW t \in Threads, GetTxData(t) \/ Drop(t) \/ KeyMissing(t) \/ Tx(t)
  PROVE  Buffers'
<1>1. PICK l \in Labels : /\ pc' = [pc EXCEPT ![t] = l] /\ pc'[t] = l
                          /\ \A u \in Threads : u # t => pc'[u] = pc[u]
  BY Moves DEF Inv, Types, StartSteps
<1>2. BufTypes' /\ AtHome' /\ OneHome'
  <2>1. CASE Drop(t)
    <3>1. data[t] # None
      BY <2>1, Zenon DEF Drop, Inv, Held, Holding
    <3>2. QED
      BY <2>1, <3>1, GivesBack, Zenon DEF Drop
  <2>2. QED
    BY <2>1, GetStep, KeyStep, TxStep
<1>3. /\ \A u \in Threads : u # t => data'[u] = data[u]
      /\ data \in [Threads -> TxData \cup {None}]
  BY Zenon DEF GetTxData, Drop, KeyMissing, Tx, Inv, Types, BufTypes
<1>4. rx' = rx /\ (l \notin {"input", "resubmit"})
  BY <1>1, Zenon DEF GetTxData, Drop, KeyMissing, Tx, Goto, Inv, Types, CtlTypes
<1>5. /\ l \in Holding => data'[t] # None
      /\ l \notin Holding \cup {"dead"} => data'[t] = None
  <2>1. CASE GetTxData(t)
    <3> DEFINE p == ac2idx(qof[t])
    <3>1. p \in Pipes
      BY ConstantsAssumption DEF ac2idx, Pipes
    <3>2. free[p] # <<>> => Head(free[p]) # None
      BY <3>1, Apart, SMTT(30) DEF Inv, Types, BufTypes
    <3>3. data[t] = None
      BY <2>1, SMTT(30) DEF GetTxData, Inv, Held, Holding
    <3> HIDE DEF p
    <3>4. l = (IF free[p] = <<>> THEN "full" ELSE "dequeue")
      BY <1>1, <2>1 DEF GetTxData, Goto, p, Inv, Types, CtlTypes
    <3>5. data'[t] = IF free[p] = <<>> THEN None ELSE Head(free[p])
      BY <1>3, <2>1, <3>3, Zenon DEF GetTxData, p
    <3>6. QED
      BY <3>2, <3>4, <3>5 DEF Holding
  <2>2. CASE Drop(t) \/ KeyMissing(t) \/ Tx(t)
    <3>1. data'[t] = None
      BY <1>3, <2>2, Zenon DEF Drop, KeyMissing, Tx
    <3>2. l \in {"poll", "dead"}
      BY <1>1, <2>2, Zenon DEF Drop, KeyMissing, Tx, Goto, Inv, Types, CtlTypes
    <3>3. QED
      BY <3>1, <3>2 DEF Holding
  <2>3. QED
    BY <2>1, <2>2, SMTT(30)
<1>6. Held'
  <2>1. pc'[Urbw] \in {"input", "resubmit"} => rx' # None
    BY <1>1, <1>4, Zenon DEF Inv, Held, Threads
  <2>2. QED
    BY <1>1, <1>3, <1>5, <2>1, HeldBy, Zenon DEF Inv
<1>7. QED
  BY <1>2, <1>6 DEF Buffers

\* The steps of the URB worker that move a transfer.
LEMMA BusyUrb ==
  ASSUME Inv, UrbTake \/ TxPut \/ RxResubmit
  PROVE  Buffers'
<1>0. Urbw \in Threads
  BY DEF Threads
<1>1. PICK l \in Labels : /\ pc' = [pc EXCEPT ![Urbw] = l] /\ pc'[Urbw] = l
                          /\ \A u \in Threads : u # Urbw => pc'[u] = pc[u]
  BY UrbMoves DEF Inv, Types, UrbSteps
<1>2. BufTypes' /\ AtHome' /\ OneHome'
  <2>1. CASE TxPut
    <3>1. data[Urbw] # None
      BY <1>0, <2>1 DEF TxPut, Inv, Held, Holding
    <3>2. QED
      BY <1>0, <2>1, <3>1, GivesBack, Zenon DEF TxPut
  <2>2. QED
    BY <2>1, UrbTakeStep, RxStep
<1>3. /\ \A u \in Threads : u # Urbw => data'[u] = data[u]
      /\ data \in [Threads -> TxData \cup {None}]
  BY Zenon DEF UrbTake, TxPut, RxResubmit, Inv, Types, BufTypes
<1>4. /\ l \in Holding => data'[Urbw] # None
      /\ l \notin Holding \cup {"dead"} => data'[Urbw] = None
      /\ l \in {"input", "resubmit"} => rx' # None
  <2>1. CASE UrbTake
    <3> DEFINE x == Head(ring)[1]
    <3>1. x \in Xfers /\ data[Urbw] = None
      <4>1. x \in Xfers
        <5>1. ring # <<>>
          BY <2>1, Zenon DEF UrbTake
        <5>2. ring \in Seq(Xfers \X {"ok", "error", "stalled"})
          BY DEF Inv, Types, BufTypes
        <5>3. Head(ring) \in Xfers \X {"ok", "error", "stalled"}
          BY <5>1, <5>2, SMTT(30)
        <5>4. QED
          BY <5>3, SMTT(30)
      <4>2. data[Urbw] = None
        BY <1>0, <2>1, Zenon DEF UrbTake, Inv, Held, Holding
      <4>3. QED
        BY <4>1, <4>2
    <3>2. x # None
      BY <3>1, Apart DEF Xfers
    <3>3. /\ x # Rx => data'[Urbw] = x /\ l = "txeof"
          /\ x = Rx => data'[Urbw] = None /\ rx' = Rx /\ l \in {"input", "rxdone", "resubmit"}
      BY <1>0, <1>1, <1>3, <2>1, <3>1, Zenon DEF UrbTake, Goto, Inv, Types, CtlTypes
    <3> HIDE DEF x
    <3>4. QED
      BY <3>2, <3>3, Apart, SMTT(30) DEF Holding
  <2>2. CASE TxPut \/ RxResubmit
    <3>1. l \in {"clear", "idle"}
      BY <1>0, <1>1, <2>2, SMTT(30) DEF TxPut, RxResubmit, Goto, Inv, Types, CtlTypes
    <3>2. data'[Urbw] = None
      BY <1>0, <1>3, <2>2, SMTT(30) DEF TxPut, RxResubmit, Inv, Held, Holding
    <3>3. QED
      BY <3>1, <3>2 DEF Holding
  <2>3. QED
    BY <2>1, <2>2
<1>5. Held'
  BY <1>0, <1>1, <1>3, <1>4, HeldBy DEF Inv
<1>6. QED
  BY <1>2, <1>5 DEF Buffers

-----------------------------------------------------------------------------
(* The invariant *)

\* urtwn_init leaves every tx_data on the list of its pipe, once.
LEMMA Initially == Init => Inv
<1> SUFFICES ASSUME Init PROVE Inv
  BY SMTT(30)
<1>1. /\ \A p \in Pipes : free[p] = [i \in 1 .. ListCount |-> <<p, i>>]
      /\ ListCount \in Nat
  BY ConstantsAssumption, SMTT(30) DEF Init
<1>2. /\ \A p \in Pipes : free[p] \in Seq(TxData) /\ Len(free[p]) = ListCount
      /\ \A p \in Pipes : \A i \in 1 .. ListCount : free[p][i] = <<p, i>>
  <2> SUFFICES ASSUME NEW p \in Pipes
               PROVE  /\ free[p] \in Seq(TxData) /\ Len(free[p]) = ListCount
                      /\ \A i \in 1 .. ListCount : free[p][i] = <<p, i>>
    OBVIOUS
  <2>1. /\ free[p] \in [1 .. ListCount -> TxData]
        /\ \A i \in 1 .. ListCount : free[p][i] = <<p, i>>
    <3>1. \A i \in 1 .. ListCount : <<p, i>> \in TxData
      BY DEF TxData
    <3>2. free[p] = [i \in 1 .. ListCount |-> <<p, i>>]
      BY <1>1, SMTT(30)
    <3>3. QED
      BY <3>1, <3>2
  <2>2. free[p] \in Seq(TxData)
    BY <1>1, <2>1
  <2>3. Len(free[p]) \in Nat /\ DOMAIN free[p] = 1 .. Len(free[p])
    BY <2>2
  <2>4. 1 .. Len(free[p]) = 1 .. ListCount
    BY <2>1, <2>3
  <2>5. Len(free[p]) = ListCount
    BY <1>1, <2>3, <2>4
  <2>6. QED
    BY <2>1, <2>2, <2>5
<1>3. QueueTypes /\ CtlTypes
  <2>1. QueueTypes
    BY ConstantsAssumption DEF Init, QueueTypes
  <2>2. oactive \in BOOLEAN
    BY Zenon DEF Init
  <2>3. QED
    BY <2>1, <2>2, SMTT(30) DEF Init, CtlTypes, Labels
<1>4. BufTypes
  <2>1. free \in [Pipes -> Seq(TxData)]
    BY <1>2 DEF Init
  <2>2. ring = <<>> /\ ring \in Seq(Xfers \X {"ok", "error", "stalled"}) /\ Len(ring) <= RingSize
    BY ConstantsAssumption DEF Init
  <2>3. QED
    BY <2>1, <2>2 DEF Init, BufTypes, Xfers
<1>5. Held
  BY DEF Init, Held, Holding, Threads
<1>6. AtHome
  BY <1>2, SMTT(30) DEF AtHome
<1>7. ASSUME NEW d \in TxData PROVE Homes(d) = 1
  <2>1. Times(free[d[1]], d) = 1
    <3>1. PICK p \in Pipes, k \in 1 .. ListCount : d = <<p, k>>
      BY DEF TxData
    <3>2. {i \in 1 .. Len(free[p]) : free[p][i] = d} = {k}
      BY <1>2, <3>1
    <3>3. QED
      BY <3>1, <3>2, FS_Singleton, Zenon DEF Times
  <2>2. Holders(data, d) = 0
    <3>1. {t \in Threads : data[t] = d} = {}
      BY Apart DEF Init
    <3>2. QED
      BY <3>1, FS_EmptySet DEF Holders
  <2>3. Away(d) = 0
    <3>1. {i \in 1 .. Len(ring) : ring[i][1] = d} = {}
      BY DEF Init
    <3>2. InRing(ring, d) = 0
      BY <3>1, FS_EmptySet DEF InRing
    <3>3. One(d \in flying) = 0 /\ One(d \in lost) = 0
      BY Apart, SMTT(30) DEF Init, One
    <3>4. QED
      BY <3>2, <3>3 DEF Away
  <2>4. QED
    BY <1>4, <2>1, <2>2, <2>3, HomesSplit
<1>8. QED
  BY <1>3, <1>4, <1>5, <1>6, <1>7 DEF Inv, Types, OneHome, BuffersBack

\* Every step keeps it.
LEMMA Inductive == Inv /\ [Next]_vars => Inv'
<1> SUFFICES ASSUME Inv, [Next]_vars PROVE Inv'
  OBVIOUS
<1>1. QueueTypes' /\ CtlTypes'
  BY QueueStep, CtlStep, SMTT(30) DEF Inv, Types
<1>2. ASSUME NEW t \in Threads, StartSteps(t) \/ Xmit(t) \/ MgmtOutput(t) PROVE Buffers'
  BY <1>2, QuietStart, BusyStart DEF StartSteps
<1>3. ASSUME UrbSteps PROVE Buffers'
  BY <1>3, QuietUrb, BusyUrb DEF UrbSteps
<1>4. ASSUME NEW x \in Xfers, Complete(x) PROVE Buffers'
  <2>1. Held'
    BY <1>4, Zenon DEF Complete, Inv, Held
  <2>2. QED
    BY <1>4, <2>1, CompleteStep DEF Buffers
<1>5. ASSUME UNCHANGED vars PROVE Buffers'
  <2>1. Held'
    BY <1>5 DEF vars, Inv, Held
  <2>2. UNCHANGED <<free, flying, ring, lost, data, fault>>
    BY <1>5 DEF vars
  <2>3. QED
    BY <2>1, <2>2, NothingMoves, SMTT(30) DEF Buffers
<1>6. QED
  BY <1>1, <1>2, <1>3, <1>4, <1>5 DEF Next, Threads, Inv, Types, Buffers

\* For every number of senders, pipes, buffers and frames, and for every
\* choice of failures: urtwn_start in several threads, the interrupt and the
\* URB worker never share a tx_data, return one twice or forget one, until
\* a frame has no key.
THEOREM OneHomeAlways == Spec => []TxDataInv
<1>1. Inv => TxDataInv
  <2> SUFFICES ASSUME Inv PROVE TxDataInv
    OBVIOUS
  <2>1. mgtq \in 0 .. MaxFrames /\ snd \in 0 .. MaxFrames /\ fed \in 0 .. MaxFrames
    BY ConstantsAssumption, SMTT(30) DEF Inv, Types, QueueTypes
  <2>2. TypeOK
    BY <2>1 DEF Inv, Types, CtlTypes, BufTypes, TypeOK, Labels
  <2>3. QED
    BY <2>2 DEF Inv, TxDataInv
<1>2. QED
  BY <1>1, Initially, Inductive, PTL DEF Spec


-----------------------------------------------------------------------------
(* The completion ring does not overflow *)

\* The receive transfer is in one place at most, as a tx_data is.
RxOnce == InRing(ring, Rx) + One(Rx \in flying) + One(rx = Rx) <= 1

\* While no frame has met a missing key nothing was dropped.
RingKept == "key" \notin fault => lost = {} /\ RxOnce

\* A count of at most one leaves no room for two.
LEMMA TwoCount ==
  ASSUME NEW S, IsFiniteSet(S), NEW i \in S, NEW j \in S, i # j
  PROVE  Cardinality(S) >= 2
<1>1. Cardinality({i}) = 1 /\ IsFiniteSet({i})
  BY FS_Singleton
<1>2. Cardinality({i} \cup {j}) = 1 + 1
  BY <1>1, FS_AddElement, SMTT(30)
<1>3. {i} \cup {j} \in SUBSET S
  OBVIOUS
<1>4. Cardinality({i} \cup {j}) <= Cardinality(S)
  BY <1>3, FS_Subset
<1>5. Cardinality(S) \in Nat
  BY FS_CardinalityType
<1>6. QED
  BY <1>2, <1>4, <1>5

\* The transfers the driver owns.
LEMMA XfersCount ==
  IsFiniteSet(Xfers) /\ Cardinality(Xfers) = NTx * ListCount + 1
<1>1. NTx \in Nat /\ NTx - 1 \in Int /\ ListCount \in Nat /\ 0 \in Int /\ 1 \in Int
  BY ConstantsAssumption
<1>2. IsFiniteSet(Pipes) /\ Cardinality(Pipes) = NTx
  BY <1>1, ConstantsAssumption, FS_Interval DEF Pipes
<1>3. IsFiniteSet(1 .. ListCount) /\ Cardinality(1 .. ListCount) = ListCount
  BY <1>1, FS_Interval
<1>4. IsFiniteSet(TxData) /\ Cardinality(TxData) = NTx * ListCount
  BY <1>2, <1>3, FS_Product, Zenon DEF TxData
<1>5. QED
  BY <1>4, Apart, FS_AddElement DEF Xfers

\* A transfer that is about to be posted finds room: the others in the ring
\* are all different.
LEMMA RoomToPost ==
  ASSUME BufTypes, NTx * ListCount < RingSize, NEW x \in Xfers, InRing(ring, x) = 0,
         \A d \in Xfers : InRing(ring, d) <= 1
  PROVE  Len(ring) < RingSize
<1> DEFINE f == [i \in 1 .. Len(ring) |-> ring[i][1]]
           T == Xfers \ {x}
<1>1. /\ Len(ring) \in Nat
      /\ \A i \in 1 .. Len(ring) : f[i] = ring[i][1] /\ ring[i][1] \in Xfers
  BY DEF BufTypes
<1>2. ASSUME NEW d PROVE IsFiniteSet({i \in 1 .. Len(ring) : ring[i][1] = d})
  <2>1. {i \in 1 .. Len(ring) : ring[i][1] = d} \in SUBSET (1 .. Len(ring))
    OBVIOUS
  <2>2. QED
    BY <1>1, <2>1, FinitePart, Zenon
<1>3. \A i \in 1 .. Len(ring) : ring[i][1] # x
  <2>1. {i \in 1 .. Len(ring) : ring[i][1] = x} = {}
    BY <1>2, FS_EmptySet, Zenon DEF InRing
  <2>2. QED
    BY <2>1
<1>4. \A i, j \in 1 .. Len(ring) : f[i] = f[j] => i = j
  <2> SUFFICES ASSUME NEW i \in 1 .. Len(ring), NEW j \in 1 .. Len(ring), f[i] = f[j], i # j
               PROVE  FALSE
    BY SMTT(30)
  <2> DEFINE d == ring[i][1]
             S == {k \in 1 .. Len(ring) : ring[k][1] = d}
  <2>1. d \in Xfers /\ i \in S /\ j \in S
    BY <1>1
  <2>2. Cardinality(S) <= 1 /\ IsFiniteSet(S)
    BY <1>2, <2>1, Zenon DEF InRing
  <2> HIDE DEF S, d
  <2>3. Cardinality(S) >= 2
    BY <2>1, <2>2, TwoCount, SMTT(30)
  <2>4. Cardinality(S) \in Nat
    BY <2>2, FS_CardinalityType
  <2>5. QED
    BY <2>2, <2>3, <2>4, SMTT(30)
<1>5. f \in Injection(1 .. Len(ring), T)
  <2>1. f \in [1 .. Len(ring) -> T]
    BY <1>1, <1>3
  <2> HIDE DEF f
  <2>2. QED
    BY <1>4, <2>1, SMTT(30) DEF Injection, IsInjective
<1>6. IsFiniteSet(T) /\ Cardinality(T) = NTx * ListCount
  <2>1. Cardinality(T) = Cardinality(Xfers) - 1 /\ IsFiniteSet(T)
    BY XfersCount, FS_RemoveElement
  <2>2. NTx * ListCount \in Nat
    BY ConstantsAssumption
  <2>3. QED
    BY <2>1, <2>2, XfersCount
<1>7. Cardinality(1 .. Len(ring)) = Len(ring)
  <2>1. 1 \in Int /\ Len(ring) \in Int /\ (IF 1 > Len(ring) THEN 0 ELSE Len(ring) - 1 + 1) = Len(ring)
    BY <1>1
  <2>2. QED
    BY <2>1, FS_Interval, Zenon
<1>8. Cardinality(1 .. Len(ring)) <= Cardinality(T)
  <2> HIDE DEF f, T
  <2>1. QED
    BY <1>5, <1>6, FS_Injection, Zenon
<1>9. NTx * ListCount \in Nat /\ RingSize \in Nat
  BY ConstantsAssumption
<1>10. QED
  BY <1>1, <1>6, <1>7, <1>8, <1>9, SMTT(30)

Kept == Inv /\ RingKept /\ "key" \notin fault

\* No transfer is twice in the ring, and one that a thread or the controller
\* has is not in it.
LEMMA RingSingles ==
  ASSUME Kept
  PROVE  /\ \A d \in Xfers : InRing(ring, d) \in Nat /\ InRing(ring, d) <= 1
         /\ \A x \in flying : InRing(ring, x) = 0
         /\ \A t \in Threads : data[t] \in TxData => InRing(ring, data[t]) = 0
         /\ rx = Rx => InRing(ring, Rx) = 0 /\ Rx \notin flying
<1>1. BufTypes /\ flying \subseteq Xfers /\ RxOnce /\ \A d \in TxData : Homes(d) = 1
  BY DEF Kept, Inv, Types, BufTypes, RingKept, OneHome, BuffersBack
<1>2. One(Rx \in flying) \in {0, 1} /\ One(rx = Rx) \in {0, 1}
  BY DEF One
<1>3. InRing(ring, Rx) \in Nat
  <2> DEFINE S == Xfers \X {"ok", "error", "stalled"}
  <2>1. ring \in Seq(S) /\ <<Rx, "ok">> \in S
    BY <1>1 DEF BufTypes, Xfers
  <2> HIDE DEF S
  <2>2. QED
    BY <2>1, RingAppend
<1>4. /\ InRing(ring, Rx) <= 1
      /\ One(Rx \in flying) = 1 => InRing(ring, Rx) = 0
      /\ One(rx = Rx) = 1 => InRing(ring, Rx) = 0 /\ One(Rx \in flying) = 0
  BY <1>1, <1>2, <1>3 DEF RxOnce
<1>5. ASSUME NEW d \in TxData
      PROVE  /\ InRing(ring, d) \in Nat /\ InRing(ring, d) <= 1
             /\ d \in flying => InRing(ring, d) = 0
             /\ Holders(data, d) >= 1 => InRing(ring, d) = 0
  <2>1. /\ 1 = Times(free[d[1]], d) + Holders(data, d) + Away(d)
        /\ Times(free[d[1]], d) \in Nat /\ Holders(data, d) \in Nat /\ InRing(ring, d) \in Nat
    BY <1>1, HomesSplit
  <2>2. /\ Away(d) = InRing(ring, d) + One(d \in flying) + One(d \in lost)
        /\ One(d \in flying) \in {0, 1} /\ One(d \in lost) \in {0, 1}
    BY DEF Away, One
  <2>3. d \in flying => One(d \in flying) = 1
    BY SMTT(30) DEF One
  <2>4. /\ InRing(ring, d) <= 1
        /\ One(d \in flying) = 1 => InRing(ring, d) = 0
        /\ Holders(data, d) >= 1 => InRing(ring, d) = 0
    BY <2>1, <2>2
  <2>5. QED
    BY <2>1, <2>3, <2>4, Zenon
<1>6. \A d \in Xfers : InRing(ring, d) \in Nat /\ InRing(ring, d) <= 1
  BY <1>3, <1>4, <1>5 DEF Xfers
<1>7. \A x \in flying : InRing(ring, x) = 0
  BY <1>1, <1>4, <1>5 DEF Xfers, One
<1>8. ASSUME NEW t \in Threads, data[t] \in TxData PROVE InRing(ring, data[t]) = 0
  <2>1. Elsewhere(data, data, t)
    BY SMTT(30) DEF Elsewhere
  <2>2. Holders(data, data[t]) >= 1
    BY <2>1, HoldersChange
  <2>3. QED
    BY <1>5, <1>8, <2>2
<1>9. rx = Rx => InRing(ring, Rx) = 0 /\ Rx \notin flying
  BY <1>4, SMTT(30) DEF One
<1>10. QED
  BY <1>6, <1>7, <1>8, <1>9

\* usbd_ring_post records the completion.
LEMMA PostRecorded ==
  ASSUME Kept, NTx * ListCount < RingSize, NEW x \in Xfers, InRing(ring, x) = 0,
         NEW st \in {"ok", "error", "stalled"}, RingPost(x, st)
  PROVE  lost' = {} /\ InRing(ring', Rx) = InRing(ring, Rx) + One(x = Rx)
<1> DEFINE S == Xfers \X {"ok", "error", "stalled"}
           e == <<x, st>>
<1>1. BufTypes /\ lost = {}
  BY DEF Kept, Inv, Types, RingKept
<1>2. Len(ring) < RingSize
  BY <1>1, RingSingles, RoomToPost
<1>3. ring' = Append(ring, e) /\ lost' = lost
  BY <1>2 DEF RingPost
<1>4. ring \in Seq(S) /\ e \in S /\ e[1] = x
  BY <1>1, SMTT(30) DEF BufTypes
<1> HIDE DEF S, e
<1>5. QED
  BY <1>1, <1>3, <1>4, RingAppend

\* usbd_transfer hands it over or records it.
LEMMA TransferRecorded ==
  ASSUME Kept, NTx * ListCount < RingSize, NEW x \in Xfers, InRing(ring, x) = 0, Transfer(x)
  PROVE  /\ lost' = {}
         /\ \/ InRing(ring', Rx) = InRing(ring, Rx) /\ flying' = flying \cup {x}
            \/ InRing(ring', Rx) = InRing(ring, Rx) + One(x = Rx) /\ flying' = flying
<1>1. CASE flying' = flying \cup {x} /\ UNCHANGED <<ring, lost>>
  BY <1>1 DEF Kept, RingKept
<1>2. CASE RingPost(x, "error") /\ UNCHANGED flying
  BY <1>2, PostRecorded
<1>3. QED
  BY <1>1, <1>2 DEF Transfer

\* Nothing is dropped by any step.
LEMMA KeptNext ==
  ASSUME Inv, RingKept, NTx * ListCount < RingSize, [Next]_vars
  PROVE  RingKept'
<1> SUFFICES ASSUME "key" \notin fault' PROVE (lost = {} /\ RxOnce)'
  BY DEF RingKept
<1> DEFINE n == InRing(ring, Rx)
<1>1. fault \subseteq fault'
  BY Zenon DEF Next, StartSteps, UrbSteps, Lock, Start, Poll, GetTxData, SetOactive, Dequeue, Drop,
     KeyMissing, Tx, Return, Xmit, MgmtOutput, UrbTake, TxPut, TxClear, RxInput, RxResubmit,
     RxStalled, Complete, vars
<1>2. Kept /\ BufTypes /\ lost = {} /\ RxOnce /\ Rx \in Xfers /\ rx \in {None, Rx}
  BY <1>1, SMTT(30) DEF Kept, Inv, Types, CtlTypes, RingKept, Xfers
<1>3. /\ n \in Nat /\ One(Rx \in flying) \in {0, 1} /\ One(rx = Rx) \in {0, 1}
      /\ n + One(Rx \in flying) + One(rx = Rx) <= 1
  BY <1>2, RingSingles, SMTT(30) DEF RxOnce, One
<1>4. ASSUME lost' = {},
             InRing(ring', Rx) + One(Rx \in flying') + One(rx' = Rx) <= 1
      PROVE  (lost = {} /\ RxOnce)'
  BY <1>4, SMTT(30) DEF RxOnce, InRing, One
<1>5. ASSUME NEW t \in Threads, Tx(t) PROVE (lost = {} /\ RxOnce)'
  <2>1. data[t] \in TxData /\ data[t] \in Xfers /\ data[t] # Rx
    BY <1>2, <1>5, Apart DEF Tx, Kept, Inv, Held, Holding, BufTypes, Xfers
  <2>2. Transfer(data[t]) /\ rx' = rx
    BY <1>5, Zenon DEF Tx
  <2>3. InRing(ring, data[t]) = 0
    BY <1>2, <2>1, RingSingles
  <2>4. /\ lost' = {}
        /\ \/ InRing(ring', Rx) = n /\ flying' = flying \cup {data[t]}
           \/ InRing(ring', Rx) = n + One(data[t] = Rx) /\ flying' = flying
    BY <1>2, <2>1, <2>2, <2>3, TransferRecorded, Zenon
  <2>5. One(data[t] = Rx) = 0 /\ One(Rx \in flying') = One(Rx \in flying) /\ One(rx' = Rx) = One(rx = Rx)
    BY <2>1, <2>2, <2>4, SMTT(30) DEF One
  <2>6. InRing(ring', Rx) = n
    BY <1>3, <2>4, <2>5, SMTT(30)
  <2> HIDE DEF n
  <2>7. InRing(ring', Rx) + One(Rx \in flying') + One(rx' = Rx) <= 1
    BY <1>3, <2>5, <2>6
  <2>8. QED
    BY <1>4, <2>4, <2>7, SMTT(30)
<1>6. CASE RxResubmit
  <2>1. rx = Rx /\ Transfer(Rx) /\ rx' = None
    BY <1>2, <1>6 DEF RxResubmit, Kept, Inv, Held
  <2>2. n = 0 /\ Rx \notin flying
    BY <1>2, <2>1, RingSingles, SMTT(30)
  <2>3. /\ lost' = {}
        /\ \/ InRing(ring', Rx) = n /\ flying' = flying \cup {Rx}
           \/ InRing(ring', Rx) = n + One(Rx = Rx) /\ flying' = flying
    BY <1>2, <2>1, <2>2, TransferRecorded
  <2> HIDE DEF n
  <2>4. One(Rx = Rx) = 1 /\ One(rx' = Rx) = 0
    BY <2>1, Apart DEF One
  <2>5. One(Rx \in flying') \in {0, 1} /\ (flying' = flying => One(Rx \in flying') = 0)
    BY <2>2, SMTT(30) DEF One
  <2>6. InRing(ring', Rx) + One(Rx \in flying') + One(rx' = Rx) <= 1
    BY <2>2, <2>3, <2>4, <2>5, SMTT(30)
  <2>7. QED
    BY <1>4, <2>3, <2>6, SMTT(30)
<1>7. ASSUME NEW x \in Xfers, Complete(x) PROVE (lost = {} /\ RxOnce)'
  <2>1. x \in flying /\ flying' = flying \ {x} /\ rx' = rx
    BY <1>7, Zenon DEF Complete
  <2>2. PICK st \in {"ok", "error", "stalled"} : RingPost(x, st)
    BY <1>7, SMTT(30) DEF Complete
  <2>3. InRing(ring, x) = 0
    BY <1>2, <2>1, RingSingles, SMTT(30)
  <2>4. lost' = {} /\ InRing(ring', Rx) = n + One(x = Rx)
    BY <1>2, <2>2, <2>3, PostRecorded
  <2>5. /\ One(rx' = Rx) = One(rx = Rx) /\ One(x = Rx) \in {0, 1}
        /\ One(Rx \in flying) = One(Rx \in flying') + One(x = Rx)
        /\ One(Rx \in flying') \in {0, 1}
    BY <2>1, SMTT(30) DEF One
  <2> HIDE DEF n
  <2>6. InRing(ring', Rx) + One(Rx \in flying') + One(rx' = Rx) <= 1
    BY <1>3, <2>4, <2>5, SMTT(30)
  <2>7. QED
    BY <1>4, <2>4, <2>6
<1>8. CASE UrbTake
  <2> DEFINE S == Xfers \X {"ok", "error", "stalled"}
             x == Head(ring)[1]
  <2>1. ring \in Seq(S) /\ ring # <<>> /\ ring' = Tail(ring)
    BY <1>2, <1>8, SMTT(30) DEF UrbTake, BufTypes
  <2>2. lost' = {} /\ flying' = flying /\ rx' = IF x = Rx THEN Rx ELSE rx
    BY <1>2, <1>8 DEF UrbTake
  <2> HIDE DEF S, x
  <2>3. InRing(ring', Rx) = n - One(x = Rx)
    BY <2>1, RingTail DEF x
  <2>4. /\ One(Rx \in flying') = One(Rx \in flying) /\ One(x = Rx) \in {0, 1}
        /\ x # Rx => One(x = Rx) = 0 /\ One(rx' = Rx) = One(rx = Rx)
        /\ x = Rx => One(x = Rx) = 1 /\ One(rx' = Rx) = 1
    BY <2>2, SMTT(30) DEF One
  <2>5. x = Rx => n >= 1
    <3>1. ring' \in Seq(S)
      BY <2>1
    <3>2. InRing(ring', Rx) \in Nat
      <4>1. <<Rx, "ok">> \in S
        BY <1>2, SMTT(30) DEF S
      <4>2. QED
        BY <3>1, <4>1, RingAppend
    <3>3. QED
      BY <1>3, <2>3, <2>4, <3>2
  <2> HIDE DEF n
  <2>6. InRing(ring', Rx) + One(Rx \in flying') + One(rx' = Rx) <= 1
    BY <1>3, <2>3, <2>4, <2>5, SMTT(30)
  <2>7. QED
    BY <1>4, <2>2, <2>6, SMTT(30)
<1>9. ASSUME UNCHANGED <<ring, flying, lost>>, rx' = rx \/ rx' = None PROVE (lost = {} /\ RxOnce)'
  <2>1. InRing(ring', Rx) = n /\ One(Rx \in flying') = One(Rx \in flying) /\ lost' = {}
    BY <1>2, <1>9
  <2>2. One(rx' = Rx) = One(rx = Rx) \/ One(rx' = Rx) = 0
    BY <1>9, Apart, SMTT(30) DEF One
  <2> HIDE DEF n
  <2>3. InRing(ring', Rx) + One(Rx \in flying') + One(rx' = Rx) <= 1
    BY <1>3, <2>1, <2>2
  <2>4. QED
    BY <1>4, <2>1, <2>3, SMTT(30)
<1>10. \/ (\E t \in Threads : Tx(t)) \/ RxResubmit \/ UrbTake \/ (\E x \in Xfers : Complete(x))
       \/ /\ UNCHANGED ring /\ UNCHANGED flying /\ UNCHANGED lost
          /\ rx' = rx \/ rx' = None
  BY Zenon DEF Next, StartSteps, UrbSteps, Lock, Start, Poll, GetTxData, SetOactive, Dequeue, Drop,
     KeyMissing, Return, Xmit, MgmtOutput, TxPut, TxClear, RxInput, RxStalled, vars
<1>11. QED
  BY <1>5, <1>6, <1>7, <1>8, <1>9, <1>10

\* A ring with a place for every transfer the driver owns never drops a
\* completion, for any number of senders, pipes and buffers and whatever
\* fails, until a frame has no key and a buffer is put back twice.
THEOREM CompletionsKept ==
  ASSUME NTx * ListCount < RingSize
  PROVE  Spec => []("key" \notin fault => NoCompletionLost)
<1>1. Init => RingKept
  <2> SUFFICES ASSUME Init PROVE RxOnce /\ lost = {}
    BY DEF RingKept
  <2>1. {i \in 1 .. Len(ring) : ring[i][1] = Rx} = {}
    BY DEF Init
  <2>2. InRing(ring, Rx) = 0
    BY <2>1, FS_EmptySet DEF InRing
  <2>3. One(Rx \in flying) = 1 /\ One(rx = Rx) = 0
    BY Apart DEF Init, One
  <2>4. QED
    BY <2>2, <2>3 DEF Init, RxOnce
<1>2. Inv /\ RingKept /\ [Next]_vars => RingKept'
  BY KeptNext
<1>3. RingKept => ("key" \notin fault => NoCompletionLost)
  BY DEF RingKept, NoCompletionLost
<1>4. QED
  BY <1>1, <1>2, <1>3, Initially, Inductive, PTL DEF Spec
=============================================================================
