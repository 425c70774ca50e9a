----------------------------- MODULE IwmTxProofs -----------------------------
(***************************************************************************)
(* The transmit rings of IwmTx for every ring size, every pair of marks,   *)
(* any number of rings, nodes and frames.                                  *)
(*                                                                         *)
(* RingSound is not inductive by itself: that a slot written by iwm_tx     *)
(* holds a node needs ic_bss and the queued management frames to be nodes, *)
(* and that the indices stay in the ring needs their types.                *)
(*                                                                         *)
(* The node references need RefInv: every node counts the holders there    *)
(* are (the table, ic_bss, queued management frames, ring slots) plus the  *)
(* references a reset lost, ic_bss and the worker's node are in the table, *)
(* and the flags agree with the rings.  RefsExact, PointersLive and        *)
(* NoStall follow from it.                                                 *)
(***************************************************************************)
EXTENDS IwmTx, FiniteSetTheorems, TLAPS

\* The slot k places before c on the ring.
Back(c, k) == IF c >= k THEN c - k ELSE Count + c - k

\* One ring, given its slots, its index and its count.
OneRing(slots, c, n) ==
  /\ slots \in [Slots -> Nodes \cup {None}]
  /\ c \in Slots /\ n \in Nat
  /\ \A i \in Slots : slots[i] # None <=> \E k \in 1 .. n : i = Back(c, k)

RingsInv ==
  /\ ring \in [Rings -> [Slots -> Nodes \cup {None}]]
  /\ cur \in [Rings -> Slots] /\ queued \in [Rings -> Nat]
  /\ qfullmsk \subseteq Rings
  /\ \A q \in Rings :
       /\ OneRing(ring[q], cur[q], queued[q])
       /\ queued[q] <= HiMark + 1
       /\ queued[q] > HiMark => q \in qfullmsk
       /\ q \in qfullmsk => queued[q] >= LoMark

PointersInv == bss \in Nodes /\ mgtq \in Seq(Nodes)

RingInv == RingsInv /\ PointersInv

\* A frame is put at index c: it occupies the place behind the new index.
LEMMA PutOne ==
  ASSUME NEW s, NEW c, NEW n, NEW v \in Nodes, OneRing(s, c, n), n + 1 < Count
  PROVE OneRing([s EXCEPT ![c] = v], Succ(c), n + 1)
<1> USE RingAssumption DEF OneRing, Slots, Nodes, None
<1>1. [s EXCEPT ![c] = v] \in [Slots -> Nodes \cup {None}] /\ Succ(c) \in Slots /\ n + 1 \in Nat
  BY DEF Succ
<1>2. ASSUME NEW i \in Slots
      PROVE [s EXCEPT ![c] = v][i] # None <=> \E k \in 1 .. n + 1 : i = Back(Succ(c), k)
  <2>1. CASE i = c
    <3>1. i = Back(Succ(c), 1) /\ 1 \in 1 .. n + 1
      BY <2>1 DEF Back, Succ
    <3> QED
      BY <2>1, <3>1
  <2>2. CASE i # c
    <3>1. ASSUME NEW k \in 1 .. n, i = Back(c, k)
          PROVE k + 1 \in 1 .. n + 1 /\ i = Back(Succ(c), k + 1)
      BY <3>1, <2>2 DEF Back, Succ
    <3>2. ASSUME NEW k \in 1 .. n + 1, i = Back(Succ(c), k)
          PROVE k - 1 \in 1 .. n /\ i = Back(c, k - 1)
      BY <3>2, <2>2 DEF Back, Succ
    <3>3. [s EXCEPT ![c] = v][i] = s[i]
      BY <2>2
    <3> QED
      BY <3>1, <3>2, <3>3
  <2> QED
    BY <2>1, <2>2
<1> QED
  BY <1>1, <1>2

\* The oldest frame leaves: the others keep their places.
LEMMA TakeOne ==
  ASSUME NEW s, NEW c, NEW n, OneRing(s, c, n), n > 0, n < Count
  PROVE OneRing([s EXCEPT ![Back(c, n)] = None], c, n - 1)
<1> USE RingAssumption DEF OneRing, Slots, Nodes, None
<1>1. Back(c, n) \in Slots
  BY DEF Back
<1>2. [s EXCEPT ![Back(c, n)] = None] \in [Slots -> Nodes \cup {None}] /\ n - 1 \in Nat
  BY <1>1
<1>3. ASSUME NEW i \in Slots
      PROVE [s EXCEPT ![Back(c, n)] = None][i] # None <=> \E k \in 1 .. n - 1 : i = Back(c, k)
  <2>1. CASE i = Back(c, n)
    <3>1. \A k \in 1 .. n - 1 : i # Back(c, k)
      BY <2>1 DEF Back
    <3> QED
      BY <2>1, <3>1
  <2>2. CASE i # Back(c, n)
    <3>1. [s EXCEPT ![Back(c, n)] = None][i] = s[i]
      BY <2>2
    <3>2. (\E k \in 1 .. n : i = Back(c, k)) <=> (\E k \in 1 .. n - 1 : i = Back(c, k))
      BY <2>2
    <3> QED
      BY <3>1, <3>2
  <2> QED
    BY <2>1, <2>2
<1> QED
  BY <1>2, <1>3

\* iwm_stop_device leaves every ring empty.
LEMMA ResetKeeps == ASSUME ResetRings PROVE RingsInv'
<1> USE RingAssumption
<1>1. \A q \in Rings : ring'[q] = [i \in Slots |-> None] /\ cur'[q] = 0 /\ queued'[q] = 0
  BY DEF ResetRings
<1>2. 0 \in Slots
  BY DEF Slots
<1>3. OneRing([i \in Slots |-> None], 0, 0)
  BY <1>2 DEF OneRing, None, Slots
<1> QED
  BY <1>1, <1>2, <1>3 DEF RingsInv, ResetRings

\* iwm_tx, called only while no ring is marked full.
LEMMA SendKeeps ==
  ASSUME RingsInv, NEW nd, NEW n \in Nodes, NEW q \in Rings, qfullmsk = {}, SendIt(nd, n, q)
  PROVE RingsInv'
<1> USE RingAssumption
<1>1. CASE iwm_tx(nd, n, q)
  <2>1. OneRing(ring[q], cur[q], queued[q]) /\ queued[q] <= HiMark /\ queued[q] \in Nat
    BY DEF RingsInv
  <2>2. OneRing([ring[q] EXCEPT ![cur[q]] = n], Succ(cur[q]), queued[q] + 1)
    BY <2>1, PutOne
  <2>3. /\ ring' = [ring EXCEPT ![q] = [ring[q] EXCEPT ![cur[q]] = n]]
        /\ cur' = [cur EXCEPT ![q] = Succ(cur[q])]
        /\ queued' = [queued EXCEPT ![q] = queued[q] + 1]
        /\ qfullmsk' = IF queued[q] + 1 > HiMark THEN {q} ELSE {}
    BY <1>1, SMTT(30) DEF iwm_tx, RingsInv
  <2>4. /\ ring' \in [Rings -> [Slots -> Nodes \cup {None}]]
        /\ cur' \in [Rings -> Slots] /\ queued' \in [Rings -> Nat]
        /\ qfullmsk' \subseteq Rings
    BY <2>2, <2>3, <2>1 DEF RingsInv, OneRing
  <2>5. ASSUME NEW r \in Rings
        PROVE /\ OneRing(ring'[r], cur'[r], queued'[r])
              /\ queued'[r] <= HiMark + 1
              /\ queued'[r] > HiMark => r \in qfullmsk'
              /\ r \in qfullmsk' => queued'[r] >= LoMark
    <3>1. CASE r = q
      BY <3>1, <2>1, <2>2, <2>3 DEF RingsInv
    <3>2. CASE r # q
      BY <3>2, <2>3 DEF RingsInv
    <3> QED
      BY <3>1, <3>2
  <2> QED
    BY <2>4, <2>5 DEF RingsInv
<1>2. CASE UNCHANGED ringVars
  BY <1>2 DEF RingsInv, ringVars
<1> QED
  BY <1>1, <1>2 DEF SendIt

\* iwm_rx_tx_cmd.
LEMMA DoneKeeps ==
  ASSUME RingsInv, NEW q \in Rings, TxDone(q) PROVE RingsInv'
<1> USE RingAssumption
<1>1. /\ OneRing(ring[q], cur[q], queued[q]) /\ queued[q] > 0 /\ queued[q] < Count
      /\ queued[q] \in Nat /\ Oldest(q) = Back(cur[q], queued[q])
  BY SMTT(30) DEF RingsInv, TxDone, Oldest, Back
<1>2. OneRing([ring[q] EXCEPT ![Oldest(q)] = None], cur[q], queued[q] - 1)
  BY <1>1, TakeOne
<1>3. /\ ring' = [ring EXCEPT ![q] = [ring[q] EXCEPT ![Oldest(q)] = None]]
      /\ cur' = cur
      /\ queued' = [queued EXCEPT ![q] = queued[q] - 1]
      /\ qfullmsk' = IF queued[q] - 1 < LoMark THEN qfullmsk \ {q} ELSE qfullmsk
  BY SMTT(30) DEF TxDone, RingsInv
<1>4. /\ ring' \in [Rings -> [Slots -> Nodes \cup {None}]]
      /\ cur' \in [Rings -> Slots] /\ queued' \in [Rings -> Nat]
      /\ qfullmsk' \subseteq Rings
  BY <1>1, <1>2, <1>3 DEF RingsInv, OneRing
<1>5. ASSUME NEW r \in Rings
      PROVE /\ OneRing(ring'[r], cur'[r], queued'[r])
            /\ queued'[r] <= HiMark + 1
            /\ queued'[r] > HiMark => r \in qfullmsk'
            /\ r \in qfullmsk' => queued'[r] >= LoMark
  <2>1. CASE r = q
    BY <2>1, <1>1, <1>2, <1>3 DEF RingsInv
  <2>2. CASE r # q
    BY <2>2, <1>3 DEF RingsInv
  <2> QED
    BY <2>1, <2>2
<1> QED
  BY <1>4, <1>5 DEF RingsInv

\* A cell found or handed out is a node.
LEMMA CellIsNode ==
  /\ \A nd : FreshCell(nd) # None => FreshCell(nd) \in Nodes
  /\ \A nd, a : Found(nd, a) # None => Found(nd, a) \in Nodes
<1>1. ASSUME NEW nd, FreshCell(nd) # None PROVE FreshCell(nd) \in Nodes
  BY <1>1 DEF FreshCell
<1>2. ASSUME NEW nd, NEW a, Found(nd, a) # None PROVE Found(nd, a) \in Nodes
  BY <1>2 DEF Found
<1> QED
  BY <1>1, <1>2

\* The initial state: empty rings, ic_bss in the first cell.
LEMMA RingInit == Init => RingInv
<1> SUFFICES ASSUME Init PROVE RingInv
  OBVIOUS
<1> USE RingAssumption
<1>1. 0 \in Slots
  BY DEF Slots
<1>2. OneRing([i \in Slots |-> None], 0, 0)
  BY <1>1 DEF OneRing, None, Slots
<1>3. RingsInv
  BY <1>1, <1>2 DEF Init, RingsInv
<1>4. PointersInv
  BY DEF Init, PointersInv, Nodes
<1> QED
  BY <1>3, <1>4 DEF RingInv

\* The rings: only iwm_start, completions and resets touch them.
LEMMA RingsNext == RingInv /\ [Next]_vars => RingsInv'
<1> SUFFICES ASSUME RingInv, [Next]_vars PROVE RingsInv'
  BY SMTT(30)
<1>1. CASE StartLoop
  <2>1. CASE mgtq # <<>> /\ SendIt(node, Head(mgtq), BE)
    <3>1. Head(mgtq) \in Nodes
      BY <2>1 DEF RingInv, PointersInv
    <3> QED
      BY <1>1, <2>1, <3>1, SendKeeps, RingAssumption DEF StartLoop, RingInv
  <2>2. CASE \E q \in Rings : SendIt(ref_node(node, bss), bss, q)
    BY <1>1, <2>2, SendKeeps DEF StartLoop, RingInv, PointersInv
  <2>3. CASE UNCHANGED ringVars
    BY <2>3 DEF RingInv, RingsInv, ringVars
  <2> QED
    BY <1>1, <2>1, <2>2, <2>3 DEF StartLoop
<1>2. ASSUME NEW q \in Rings, TxDone(q) PROVE RingsInv'
  BY <1>2, DoneKeeps DEF RingInv
<1>3. CASE ResetRings
  BY <1>3, ResetKeeps
<1>4. CASE UNCHANGED ringVars
  BY <1>4 DEF RingInv, RingsInv, ringVars
<1>5. \/ StartLoop \/ (\E q \in Rings : TxDone(q)) \/ ResetRings \/ UNCHANGED ringVars
  BY Zenon DEF Next, Holder, Worker, StartEnd, ResetBss, StopDevice, WorkerCommand, WorkerDone,
     WorkerFailed, WorkerScan, WorkerForce, WorkerUp, WorkerInit, WorkerRestart, WorkerSecondImage,
     WorkerRestarted, Beacon, Associate, SendMgmt, Output, Fatal, vars
<1> QED
  BY <1>1, <1>2, <1>3, <1>4, <1>5

\* The pointers: ic_bss and the frames of ic_mgtq refer to cells of the heap.
LEMMA PointersNext == PointersInv /\ [Next]_vars => PointersInv'
<1> SUFFICES ASSUME PointersInv, [Next]_vars PROVE PointersInv'
  BY SMTT(30)
<1> USE DEF PointersInv
<1>1. CASE StartLoop
  BY <1>1 DEF StartLoop
<1>2. CASE ResetBss
  BY <1>2, CellIsNode DEF ResetBss
<1>3. ASSUME NEW a \in APs, Associate(a) PROVE PointersInv'
  BY <1>3, CellIsNode DEF Associate
<1>4. ASSUME NEW n \in Nodes, SendMgmt(n) PROVE PointersInv'
  BY <1>4 DEF SendMgmt
<1>5. CASE WorkerDone
  BY <1>5 DEF WorkerDone
<1>6. ASSUME UNCHANGED mgtq \/ mgtq' = Append(mgtq, bss), UNCHANGED bss PROVE PointersInv'
  BY <1>6
<1>7. CASE WorkerForce \/ WorkerInit \/ WorkerRestarted
  <2>1. UNCHANGED bss
    BY <1>7, SMTT(30) DEF WorkerForce, WorkerInit, WorkerRestarted
  <2>2. UNCHANGED mgtq \/ mgtq' = Append(mgtq, bss)
    BY <1>7 DEF WorkerForce, WorkerInit, WorkerRestarted, LeaveBss
  <2> QED
    BY <1>6, <2>1, <2>2
<1>8. CASE UNCHANGED <<bss, mgtq>>
  BY <1>8, SMTT(30)
<1> QED
  BY <1>1, <1>2, <1>3, <1>4, <1>5, <1>7, <1>8, Zenon DEF Next, Holder, Worker, StartEnd, StopDevice,
     WorkerCommand, WorkerFailed, WorkerScan, WorkerUp, WorkerRestart, WorkerSecondImage,
     Beacon, Output, Fatal, TxDone, vars

\* The invariant gives the property, slot by slot.
LEMMA RingInvSound == RingInv => RingSound
<1> SUFFICES ASSUME RingInv, NEW q \in Rings
             PROVE /\ queued[q] <= HiMark + 1 /\ (queued[q] > HiMark => q \in qfullmsk)
                   /\ q \in qfullmsk => queued[q] >= LoMark
                   /\ ring[q][cur[q]] = None
                   /\ {i \in Slots : ring[q][i] # None} =
                        {IF cur[q] >= k THEN cur[q] - k ELSE Count + cur[q] - k :
                           k \in 1 .. queued[q]}
  BY DEF RingSound
<1> USE RingAssumption
<1>1. /\ OneRing(ring[q], cur[q], queued[q]) /\ queued[q] <= HiMark + 1
      /\ queued[q] \in Nat /\ cur[q] \in Slots
      /\ queued[q] > HiMark => q \in qfullmsk
      /\ q \in qfullmsk => queued[q] >= LoMark
  BY SMTT(30) DEF RingInv, RingsInv
<1>2. \A k \in 1 .. queued[q] : Back(cur[q], k) # cur[q] /\ Back(cur[q], k) \in Slots
  BY <1>1 DEF Back, Slots
<1>3. ring[q][cur[q]] = None
  BY <1>1, <1>2, SMTT(30) DEF OneRing
<1>4. {i \in Slots : ring[q][i] # None} = {Back(cur[q], k) : k \in 1 .. queued[q]}
  BY <1>1, <1>2 DEF OneRing
<1> QED
  BY <1>1, <1>3, <1>4, SMTT(30) DEF Back

\* Whatever iwm_start, completions, fatal errors and restarts do, no ring
\* overflows and none of its slots is written while the firmware has it.
THEOREM RingsSound == Spec => []RingSound
<1>1. RingInv /\ [Next]_vars => RingInv'
  BY RingsNext, PointersNext DEF RingInv
<1> QED
  BY <1>1, RingInit, RingInvSound, PTL DEF Spec

-----------------------------------------------------------------------------
(* References: the invariant *)

One(P) == IF P THEN 1 ELSE 0

Cells == [ref : Nat, mac : APs \cup {Own}, tab : BOOLEAN]

\* Slots of rings r whose frame carries a reference to n.
Flying(r, n) == Cardinality({s \in Rings \X Slots : r[s[1]][s[2]] = n})

\* The references to n that somebody owns, or that went with a reset.
Owed(n) ==
  One(node[n].tab) + One(bss = n) + Carried(mgtq, n) + Flying(ring, n) + lost[n]

HeapInv ==
  /\ node \in [Nodes -> Cells] /\ lost \in [Nodes -> Nat]
  /\ \A n \in Nodes : node[n].ref = Owed(n)

\* What the thread that holds the serializer may have left to do.
Todos ==
  {<<>>, <<"start">>, <<"reset">>, <<"start", "reset">>,
   <<"stop">>, <<"reset", "stop">>, <<"start", "reset", "stop">>}

\* ic_bss is in the table, and so is the node the sleeping worker points to:
\* the table is reset only on the worker itself, when it points to none.
TableInv ==
  /\ todo \in Todos
  /\ node[bss].tab
  /\ win \in Nodes \cup {None}
  /\ win # None => node[win].tab /\ wpc \in {"AUTH", "ASSOC", "RUN"}
  /\ todo \notin {<<>>, <<"start">>} => win = None

\* While a forced transition brings the device up again nothing is queued:
\* the reset drained ic_mgtq and the firmware that would make the stack
\* answer is off.
UpInv ==
  wpc = "UP" =>
    \/ todo \in {<<"start", "reset", "stop">>, <<"reset", "stop">>}
    \/ mgtq = <<>> /\ (todo = <<"stop">> \/ hw = "off")

FlagsInv ==
  /\ if_flags \subseteq {"RUNNING", "OACTIVE"}
  /\ UpInv /\ NoStall

RefInv == RingInv /\ HeapInv /\ TableInv /\ FlagsInv
-----------------------------------------------------------------------------
(* References: counting *)

\* A finite set that gains or loses one element, or none.
LEMMA OneDiffers ==
  ASSUME NEW A, NEW B, NEW x, IsFiniteSet(A)
  PROVE  /\ Cardinality(A) \in Nat
         /\ B = A => Cardinality(B) = Cardinality(A)
         /\ x \notin A /\ B = A \cup {x} => Cardinality(B) = Cardinality(A) + 1
         /\ x \in A /\ B = A \ {x} => Cardinality(B) = Cardinality(A) - 1
<1>1. Cardinality(A) \in Nat
  BY FS_CardinalityType
<1>2. ASSUME x \notin A, B = A \cup {x} PROVE Cardinality(B) = Cardinality(A) + 1
  BY <1>2, FS_AddElement
<1>3. ASSUME x \in A, B = A \ {x} PROVE Cardinality(B) = Cardinality(A) - 1
  BY <1>3, FS_RemoveElement
<1>4. QED
  BY <1>1, <1>2, <1>3

\* The frames of a queue that carry a reference to n.
Places(q, n) == {i \in 1 .. Len(q) : q[i] = n}

\* Positions of a queue are finitely many.
LEMMA PlacesFinite ==
  ASSUME NEW q \in Seq(Nodes), NEW n
  PROVE  IsFiniteSet(Places(q, n)) /\ Carried(q, n) \in Nat
<1>1. Places(q, n) \in SUBSET Nat /\ \A i \in Places(q, n) : i <= Len(q)
  BY DEF Places
<1>2. IsFiniteSet(Places(q, n))
  BY <1>1, FS_BoundedSetOfNaturals
<1>3. QED
  BY <1>2, FS_CardinalityType DEF Carried, Places

\* A frame at the end of the queue.
LEMMA CarriedAppend ==
  ASSUME NEW q \in Seq(Nodes), NEW x \in Nodes, NEW n
  PROVE  Carried(Append(q, x), n) = Carried(q, n) + One(n = x)
<1> DEFINE r == Append(q, x)
           e == Len(q) + 1
<1>1. /\ Len(q) \in Nat /\ Len(r) = e /\ r[e] = x /\ 1 .. e = (1 .. Len(q)) \cup {e}
      /\ \A i \in 1 .. Len(q) : r[i] = q[i] /\ i # e
  OBVIOUS
<1> HIDE DEF r, e
<1>2. /\ Places(r, n) = IF n = x THEN Places(q, n) \cup {e} ELSE Places(q, n)
      /\ e \notin Places(q, n)
  BY <1>1 DEF Places
<1>3. Cardinality(Places(r, n)) = Cardinality(Places(q, n)) + One(n = x)
  BY <1>2, PlacesFinite, OneDiffers DEF One
<1>4. QED
  BY <1>3, Zenon DEF Carried, Places, r

\* A frame leaves the head of the queue: the others move up.
LEMMA CarriedTail ==
  ASSUME NEW q \in Seq(Nodes), q # <<>>, NEW n
  PROVE  Carried(q, n) = Carried(Tail(q), n) + One(n = Head(q))
<1> DEFINE r == Tail(q)
           f == [i \in Places(r, n) |-> i + 1]
<1>1. /\ r \in Seq(Nodes) /\ Len(r) \in Nat /\ Len(q) = Len(r) + 1 /\ Head(q) = q[1]
      /\ \A i \in 1 .. Len(r) : r[i] = q[i + 1]
  OBVIOUS
<1> HIDE DEF r
<1>2. f \in Bijection(Places(r, n), Places(q, n) \ {1})
  <2>1. \A i \in Places(r, n) : i \in Nat /\ i # 0 /\ f[i] = i + 1 /\ i + 1 \in Places(q, n) \ {1}
    BY <1>1 DEF Places
  <2>2. \A j \in Places(q, n) \ {1} : j - 1 \in Places(r, n) /\ (j - 1) + 1 = j
    BY <1>1 DEF Places
  <2>3. f \in [Places(r, n) -> Places(q, n) \ {1}]
    BY <2>1
  <2>4. \A i, j \in Places(r, n) : f[i] = f[j] => i = j
    BY <2>1
  <2>5. \A j \in Places(q, n) \ {1} : \E i \in Places(r, n) : f[i] = j
    BY <2>1, <2>2
  <2> HIDE DEF f
  <2>6. QED
    BY <2>3, <2>4, <2>5 DEF Bijection, Injection, Surjection, IsInjective
<1>3. IsFiniteSet(Places(r, n)) /\ IsFiniteSet(Places(q, n))
  BY <1>1, PlacesFinite
<1>4. Cardinality(Places(q, n) \ {1}) = Cardinality(Places(r, n))
  BY <1>2, <1>3, FS_Bijection DEF ExistsBijection
<1>5. 1 \in Places(q, n) <=> n = Head(q)
  BY <1>1 DEF Places
<1>6. /\ Cardinality(Places(q, n)) \in Nat
      /\ 1 \in Places(q, n) => Cardinality(Places(q, n) \ {1}) = Cardinality(Places(q, n)) - 1
      /\ 1 \notin Places(q, n) => Cardinality(Places(q, n) \ {1}) = Cardinality(Places(q, n))
  <2>1. 1 \notin Places(q, n) => Places(q, n) \ {1} = Places(q, n)
    OBVIOUS
  <2>2. QED
    BY <1>3, <2>1, OneDiffers, Zenon
<1>7. Cardinality(Places(q, n)) = Cardinality(Places(r, n)) + One(n = Head(q))
  BY <1>4, <1>5, <1>6 DEF One
<1>8. QED
  BY <1>7, Zenon DEF Carried, Places, r

\* An empty queue carries nothing.
LEMMA CarriedNone == \A n : Carried(<<>>, n) = 0
<1>1. \A n : {i \in 1 .. Len(<<>>) : <<>>[i] = n} = {}
  OBVIOUS
<1>2. QED
  BY <1>1, FS_EmptySet DEF Carried

Occupied(r, n) == {s \in Rings \X Slots : r[s[1]][s[2]] = n}

\* The slots of the rings are finitely many.
LEMMA FlyingType ==
  ASSUME NEW r, NEW n
  PROVE  IsFiniteSet(Occupied(r, n)) /\ Flying(r, n) \in Nat
<1>1. IsFiniteSet(Slots)
  BY RingAssumption, FS_Interval DEF Slots
<1>2. IsFiniteSet(Rings \X Slots)
  BY <1>1, RingAssumption, FS_Product
<1>3. IsFiniteSet(Occupied(r, n))
  BY <1>2, FS_Subset DEF Occupied
<1>4. QED
  BY <1>3, FS_CardinalityType DEF Flying, Occupied

\* One slot of one ring is written.
Written(r, q, i, v) == [r EXCEPT ![q] = [r[q] EXCEPT ![i] = v]]

\* A frame is put into an empty slot, or taken out of its slot.
LEMMA FlyingWritten ==
  ASSUME NEW r \in [Rings -> [Slots -> Nodes \cup {None}]], NEW q \in Rings, NEW i \in Slots,
         NEW v \in Nodes \cup {None}, NEW n \in Nodes
  PROVE  /\ r[q][i] = None =>
              Flying(Written(r, q, i, v), n) = Flying(r, n) + One(n = v)
         /\ v = None =>
              Flying(r, n) = Flying(Written(r, q, i, v), n) + One(n = r[q][i])
<1> DEFINE A == Occupied(r, n)
           B == Occupied(Written(r, q, i, v), n)
           x == <<q, i>>
<1>1. n # None
  BY DEF Nodes, None
<1>2. \A s \in Rings \X Slots :
        Written(r, q, i, v)[s[1]][s[2]] = IF s = x THEN v ELSE r[s[1]][s[2]]
  BY DEF Written
<1>3. x \in Rings \X Slots /\ x[1] = q /\ x[2] = i
  OBVIOUS
<1>4. /\ x \in A <=> r[q][i] = n
      /\ B = IF v = n THEN A \cup {x} ELSE A \ {x}
  BY <1>2, <1>3 DEF Occupied
<1>5. /\ IsFiniteSet(A) /\ IsFiniteSet(B)
      /\ Flying(r, n) = Cardinality(A) /\ Flying(Written(r, q, i, v), n) = Cardinality(B)
  <2>1. IsFiniteSet(A) /\ IsFiniteSet(B)
    BY FlyingType
  <2>2. Flying(r, n) = Cardinality(A) /\ Flying(Written(r, q, i, v), n) = Cardinality(B)
    BY DEF Flying, Occupied
  <2>3. QED
    BY <2>1, <2>2
<1> HIDE DEF A, B, x
<1>6. ASSUME r[q][i] = None PROVE Cardinality(B) = Cardinality(A) + One(n = v)
  <2>1. x \notin A /\ B = IF v = n THEN A \cup {x} ELSE A
    BY <1>1, <1>4, <1>6, Zenon
  <2>2. QED
    BY <1>5, <2>1, OneDiffers DEF One
<1>7. ASSUME v = None PROVE Cardinality(A) = Cardinality(B) + One(n = r[q][i])
  <2>1. B = IF n = r[q][i] THEN A \ {x} ELSE A
    BY <1>1, <1>4, <1>7, Zenon
  <2>2. n = r[q][i] => x \in A
    BY <1>4
  <2>3. QED
    BY <1>5, <2>1, <2>2, OneDiffers DEF One
<1>8. QED
  BY <1>5, <1>6, <1>7

\* Empty rings carry nothing.
LEMMA FlyingNone ==
  ASSUME NEW n \in Nodes
  PROVE  Flying([q \in Rings |-> [i \in Slots |-> None]], n) = 0
<1>1. {s \in Rings \X Slots : [q \in Rings |-> [i \in Slots |-> None]][s[1]][s[2]] = n} = {}
  BY DEF Nodes, None
<1>2. QED
  BY <1>1, FS_EmptySet DEF Flying

-----------------------------------------------------------------------------
(* References: the heap *)

\* ieee80211_ref_node.
LEMMA RefNode ==
  ASSUME NEW nd \in [Nodes -> Cells], NEW x \in Nodes
  PROVE  /\ ref_node(nd, x) \in [Nodes -> Cells]
         /\ \A n \in Nodes : /\ ref_node(nd, x)[n].ref = nd[n].ref + One(n = x)
                             /\ ref_node(nd, x)[n].tab = nd[n].tab
  BY DEF ref_node, Cells, One

\* ieee80211_free_node, when the reference is not the table's.
LEMMA FreeNode ==
  ASSUME NEW nd \in [Nodes -> Cells], NEW x \in Nodes, nd[x].ref >= 1 + One(nd[x].tab)
  PROVE  /\ free_node(nd, x) \in [Nodes -> Cells]
         /\ \A n \in Nodes : /\ free_node(nd, x)[n].ref = nd[n].ref - One(n = x)
                             /\ free_node(nd, x)[n].tab = nd[n].tab
<1>1. nd[x].ref \in Nat /\ nd[x].tab \in BOOLEAN /\ nd[x] \in Cells
  BY DEF Cells
<1>2. CASE nd[x].ref = 1
  <2>1. nd[x].tab = FALSE
    BY <1>1, <1>2 DEF One
  <2>2. FreeCell \in Cells /\ FreeCell.ref = 0 /\ FreeCell.tab = FALSE
    BY DEF FreeCell, Cells
  <2>3. free_node(nd, x) = [nd EXCEPT ![x] = FreeCell]
    BY <1>2 DEF free_node
  <2>4. QED
    BY <1>2, <2>1, <2>2, <2>3 DEF One, Cells
<1>3. CASE nd[x].ref # 1
  <2>1. free_node(nd, x) = [nd EXCEPT ![x] = [nd[x] EXCEPT !.ref = nd[x].ref - 1]]
    BY <1>3 DEF free_node
  <2>2. nd[x].ref - 1 \in Nat
    BY <1>1, <1>3 DEF One
  <2>3. QED
    BY <1>1, <1>3, <2>1, <2>2 DEF One, Cells
<1>4. QED
  BY <1>2, <1>3

-----------------------------------------------------------------------------
(* References: the steps *)

RefTypes == RingInv /\ HeapInv

\* The parts of the count of a node.
LEMMA Shares ==
  ASSUME RefTypes, NEW n \in Nodes
  PROVE  /\ node \in [Nodes -> Cells] /\ node[n].ref \in Nat /\ node[n].tab \in BOOLEAN
         /\ One(node[n].tab) \in {0, 1} /\ One(bss = n) \in {0, 1}
         /\ Carried(mgtq, n) \in Nat /\ Flying(ring, n) \in Nat /\ lost[n] \in Nat
         /\ node[n].ref = One(node[n].tab) + One(bss = n) + Carried(mgtq, n)
                            + Flying(ring, n) + lost[n]
<1>1. node \in [Nodes -> Cells] /\ lost \in [Nodes -> Nat] /\ node[n].ref = Owed(n)
  BY DEF RefTypes, HeapInv
<1>2. node[n].ref \in Nat /\ node[n].tab \in BOOLEAN /\ lost[n] \in Nat
  BY <1>1 DEF Cells
<1>3. Carried(mgtq, n) \in Nat
  BY PlacesFinite DEF RefTypes, RingInv, PointersInv
<1>4. Flying(ring, n) \in Nat
  BY FlyingType
<1>5. One(node[n].tab) \in {0, 1} /\ One(bss = n) \in {0, 1}
  BY DEF One
<1>6. QED
  BY <1>1, <1>2, <1>3, <1>4, <1>5 DEF Owed

\* The count after a step, from its parts.
LEMMA Recount ==
  ASSUME node' \in [Nodes -> Cells], lost' \in [Nodes -> Nat],
         \A n \in Nodes : node'[n].ref = One(node'[n].tab) + One(bss' = n) + Carried(mgtq', n)
                                           + Flying(ring', n) + lost'[n]
  PROVE  HeapInv'
<1>1. \A n \in Nodes : Owed(n)' = One(node'[n].tab) + One(bss' = n) + Carried(mgtq', n)
                                    + Flying(ring', n) + lost'[n]
  BY DEF Owed, One, Carried, Flying
<1>2. QED
  BY <1>1 DEF HeapInv

\* The slot iwm_tx writes is empty.
LEMMA CurEmpty ==
  ASSUME RingsInv, NEW q \in Rings
  PROVE  /\ ring \in [Rings -> [Slots -> Nodes \cup {None}]] /\ cur[q] \in Slots
         /\ ring[q][cur[q]] = None
<1>1. ring \in [Rings -> [Slots -> Nodes \cup {None}]] /\ cur[q] \in Slots
  BY DEF RingsInv
<1>2. OneRing(ring[q], cur[q], queued[q]) /\ queued[q] \in Nat /\ queued[q] < Count
  BY RingAssumption DEF RingsInv
<1>3. \A k \in 1 .. queued[q] : Back(cur[q], k) # cur[q]
  BY <1>1, <1>2, RingAssumption DEF Back, Slots
<1>4. QED
  BY <1>1, <1>2, <1>3 DEF OneRing

\* iwm_tx puts a frame that carries a reference to x into a ring.
LEMMA TxFlies ==
  ASSUME RingsInv, NEW nd, NEW x \in Nodes, NEW q \in Rings, iwm_tx(nd, x, q), NEW n \in Nodes
  PROVE  Flying(ring', n) = Flying(ring, n) + One(n = x)
<1>1. ring' = Written(ring, q, cur[q], x)
  BY CurEmpty DEF iwm_tx, Written
<1>2. QED
  BY <1>1, CurEmpty, FlyingWritten

\* The shares of a step that leaves ic_bss and the table alone: references
\* move between frames, the heap's counts and the lost ones.
Moves ==
  /\ node' \in [Nodes -> Cells] /\ lost' \in [Nodes -> Nat]
  /\ \A n \in Nodes :
       /\ node'[n].tab = node[n].tab
       /\ Carried(mgtq', n) \in Nat /\ Flying(ring', n) \in Nat
       /\ node'[n].ref + Carried(mgtq, n) + Flying(ring, n) + lost[n]
            = node[n].ref + Carried(mgtq', n) + Flying(ring', n) + lost'[n]

\* Such a step keeps the counts exact.
LEMMA MovesKeep ==
  ASSUME RefTypes, UNCHANGED bss, Moves
  PROVE  HeapInv'
<1>1. ASSUME NEW n \in Nodes
      PROVE  node'[n].ref = One(node'[n].tab) + One(bss' = n) + Carried(mgtq', n)
                              + Flying(ring', n) + lost'[n]
  <2>1. One(node'[n].tab) = One(node[n].tab) /\ One(bss' = n) = One(bss = n)
    BY SMTT(30) DEF Moves
  <2>2. /\ Carried(mgtq', n) \in Nat /\ Flying(ring', n) \in Nat
        /\ node'[n].ref \in Nat /\ lost'[n] \in Nat
        /\ node'[n].ref + Carried(mgtq, n) + Flying(ring, n) + lost[n]
             = node[n].ref + Carried(mgtq', n) + Flying(ring', n) + lost'[n]
    BY SMTT(30) DEF Moves, Cells
  <2>3. /\ One(node[n].tab) \in Nat /\ One(bss = n) \in Nat
        /\ Carried(mgtq, n) \in Nat /\ Flying(ring, n) \in Nat /\ lost[n] \in Nat
        /\ node[n].ref = One(node[n].tab) + One(bss = n) + Carried(mgtq, n)
                            + Flying(ring, n) + lost[n]
    BY Shares
  <2>4. QED
    BY <2>1, <2>2, <2>3, SMTT(30)
<1>2. QED
  BY <1>1, Recount, SMTT(30) DEF Moves

\* A handler queues a frame to x, or none; it resets the rings, or not.
Queues(x) ==
  \/ mgtq' = Append(mgtq, x) /\ node' = ref_node(node, x)
  \/ UNCHANGED <<mgtq, node>>

MayReset == ResetRings \/ UNCHANGED <<ring, lost>>

\* The heap and ic_mgtq when a frame is queued, or none is.
LEMMA QueueMoves ==
  ASSUME RefTypes, NEW x \in Nodes, NEW n \in Nodes, Queues(x)
  PROVE  /\ node' \in [Nodes -> Cells] /\ node'[n].tab = node[n].tab
         /\ Carried(mgtq', n) \in Nat
         /\ node'[n].ref + Carried(mgtq, n) = node[n].ref + Carried(mgtq', n)
<1>1. node \in [Nodes -> Cells] /\ node[n].ref \in Nat /\ Carried(mgtq, n) \in Nat
  BY Shares
<1>2. CASE mgtq' = Append(mgtq, x) /\ node' = ref_node(node, x)
  <2>1. /\ node' \in [Nodes -> Cells]
        /\ node'[n].ref = node[n].ref + One(n = x) /\ node'[n].tab = node[n].tab
    BY <1>1, <1>2, RefNode
  <2>2. Carried(mgtq', n) = Carried(mgtq, n) + One(n = x)
    BY <1>2, CarriedAppend DEF RefTypes, RingInv, PointersInv
  <2>3. One(n = x) \in {0, 1}
    BY DEF One
  <2>4. /\ Carried(mgtq', n) \in Nat
        /\ node'[n].ref + Carried(mgtq, n) = node[n].ref + Carried(mgtq', n)
    BY <1>1, <2>1, <2>2, <2>3
  <2>5. QED
    BY <2>1, <2>4, Zenon
<1>3. CASE UNCHANGED <<mgtq, node>>
  BY <1>1, <1>3
<1>4. QED
  BY <1>2, <1>3 DEF Queues

\* The rings and the lost references when the rings are reset, or are not.
LEMMA RingMoves ==
  ASSUME RefTypes, NEW n \in Nodes, MayReset
  PROVE  /\ lost' \in [Nodes -> Nat] /\ Flying(ring', n) \in Nat
         /\ Flying(ring, n) + lost[n] = Flying(ring', n) + lost'[n]
<1>1. lost \in [Nodes -> Nat] /\ \A m \in Nodes : Flying(ring, m) \in Nat /\ lost[m] \in Nat
  BY Shares DEF RefTypes, HeapInv
<1>2. CASE ResetRings
  <2>1. Flying(ring', n) = 0
    BY <1>2, FlyingNone DEF ResetRings
  <2>2. \A m \in Nodes : Cardinality(InFlight(m)) = Flying(ring, m)
    BY DEF InFlight, Flying
  <2>3. lost' = [m \in Nodes |-> lost[m] + Flying(ring, m)]
    BY <1>2, <2>2 DEF ResetRings
  <2>4. QED
    BY <1>1, <2>1, <2>3
<1>3. CASE UNCHANGED <<ring, lost>>
  BY <1>1, <1>3, SMTT(30)
<1>4. QED
  BY <1>2, <1>3 DEF MayReset

\* Every handler that queues at most one frame and resets the rings or not.
LEMMA HandlerMoves ==
  ASSUME RefTypes, NEW x \in Nodes, Queues(x), MayReset
  PROVE  Moves
<1>1. 1 \in Nodes
  BY RingAssumption DEF Nodes
<1>2. node' \in [Nodes -> Cells] /\ lost' \in [Nodes -> Nat]
  BY <1>1, QueueMoves, RingMoves
<1>3. ASSUME NEW n \in Nodes
      PROVE  /\ node'[n].tab = node[n].tab
             /\ Carried(mgtq', n) \in Nat /\ Flying(ring', n) \in Nat
             /\ node'[n].ref + Carried(mgtq, n) + Flying(ring, n) + lost[n]
                  = node[n].ref + Carried(mgtq', n) + Flying(ring', n) + lost'[n]
  <2>1. /\ node'[n].tab = node[n].tab /\ Carried(mgtq', n) \in Nat
        /\ node'[n].ref + Carried(mgtq, n) = node[n].ref + Carried(mgtq', n)
    BY QueueMoves
  <2>2. /\ Flying(ring', n) \in Nat
        /\ Flying(ring, n) + lost[n] = Flying(ring', n) + lost'[n]
    BY RingMoves
  <2>3. /\ node[n].ref \in Nat /\ Carried(mgtq, n) \in Nat /\ Flying(ring, n) \in Nat
        /\ lost[n] \in Nat
    BY Shares
  <2>4. node'[n].ref \in Nat /\ lost'[n] \in Nat
    BY <1>2, SMTT(30) DEF Cells
  <2>5. node'[n].ref + Carried(mgtq, n) + Flying(ring, n) + lost[n]
          = node[n].ref + Carried(mgtq', n) + Flying(ring', n) + lost'[n]
    BY <2>1, <2>2, <2>3, <2>4
  <2>6. QED
    BY <2>1, <2>2, <2>5, Zenon
<1>4. QED
  BY <1>2, <1>3 DEF Moves

\* One turn of iwm_start.
LEMMA LoopMoves == ASSUME RefTypes, StartLoop PROVE Moves
<1> DEFINE Balanced(n) ==
             /\ node'[n].tab = node[n].tab
             /\ Carried(mgtq', n) \in Nat /\ Flying(ring', n) \in Nat
             /\ node'[n].ref + Carried(mgtq, n) + Flying(ring, n)
                  = node[n].ref + Carried(mgtq', n) + Flying(ring', n)
<1>1. /\ RingsInv /\ bss \in Nodes /\ mgtq \in Seq(Nodes)
      /\ node \in [Nodes -> Cells] /\ lost \in [Nodes -> Nat]
  BY DEF RefTypes, RingInv, PointersInv, HeapInv
<1>2. lost' = lost
  BY DEF StartLoop, history
<1>3. ASSUME node' \in [Nodes -> Cells], \A n \in Nodes : Balanced(n) PROVE Moves
  <2>1. ASSUME NEW n \in Nodes
        PROVE  node'[n].ref + Carried(mgtq, n) + Flying(ring, n) + lost[n]
                 = node[n].ref + Carried(mgtq', n) + Flying(ring', n) + lost'[n]
    BY <1>2, <1>3
  <2>2. QED
    BY <1>1, <1>2, <1>3, <2>1, SMTT(30) DEF Moves
<1> HIDE DEF Balanced
<1>4. CASE mgtq # <<>> /\ mgtq' = Tail(mgtq) /\ SendIt(node, Head(mgtq), BE)
  <2> DEFINE x == Head(mgtq)
  <2>1. x \in Nodes /\ mgtq' \in Seq(Nodes)
    BY <1>1, <1>4
  <2>2. ASSUME NEW n \in Nodes
        PROVE  /\ Carried(mgtq, n) = Carried(mgtq', n) + One(n = x)
               /\ Carried(mgtq', n) \in Nat /\ One(n = x) \in {0, 1}
    <3>1. Carried(mgtq, n) = Carried(mgtq', n) + One(n = x)
      BY <1>1, <1>4, CarriedTail
    <3>2. Carried(mgtq', n) \in Nat
      BY <2>1, PlacesFinite
    <3>3. QED
      BY <3>1, <3>2 DEF One
  <2> HIDE DEF x
  <2>3. CASE iwm_tx(node, x, BE)
    <3>1. node' = node
      BY <2>3 DEF iwm_tx
    <3>2. ASSUME NEW n \in Nodes PROVE Balanced(n)
      <4>1. Flying(ring', n) = Flying(ring, n) + One(n = x)
        BY <1>1, <2>1, <2>3, TxFlies, RingAssumption
      <4>2. node[n].ref \in Nat /\ Flying(ring, n) \in Nat
        BY Shares
      <4>3. /\ Flying(ring', n) \in Nat
            /\ node[n].ref + Carried(mgtq, n) + Flying(ring, n)
                 = node[n].ref + Carried(mgtq', n) + Flying(ring', n)
        BY <2>2, <4>1, <4>2
      <4>4. QED
        BY <2>2, <3>1, <4>3, Zenon DEF Balanced
    <3>3. QED
      BY <1>1, <1>3, <3>1, <3>2
  <2>4. CASE node' = free_node(node, x) /\ UNCHANGED ringVars
    <3>1. node[x].ref >= 1 + One(node[x].tab)
      <4>1. Carried(mgtq, x) >= 1
        BY <2>1, <2>2, SMTT(30) DEF One
      <4>2. /\ One(node[x].tab) \in Nat /\ One(bss = x) \in Nat
            /\ Carried(mgtq, x) \in Nat /\ Flying(ring, x) \in Nat /\ lost[x] \in Nat
            /\ node[x].ref = One(node[x].tab) + One(bss = x) + Carried(mgtq, x)
                               + Flying(ring, x) + lost[x]
        BY <2>1, Shares
      <4>3. QED
        BY <4>1, <4>2
    <3>2. /\ node' \in [Nodes -> Cells]
          /\ \A n \in Nodes : node'[n].ref = node[n].ref - One(n = x) /\ node'[n].tab = node[n].tab
      <4>1. node \in [Nodes -> Cells] /\ x \in Nodes /\ node' = free_node(node, x)
        BY <1>1, <2>1, <2>4
      <4>2. QED
        BY <3>1, <4>1, FreeNode
    <3>3. ASSUME NEW n \in Nodes PROVE Balanced(n)
      <4>1. Flying(ring', n) = Flying(ring, n)
        BY <2>4, SMTT(30) DEF ringVars
      <4>2. node[n].ref \in Nat /\ Flying(ring, n) \in Nat
        BY Shares
      <4>3. node'[n].ref = node[n].ref - One(n = x)
        BY <3>2, SMTT(30)
      <4>4. /\ Flying(ring', n) \in Nat
            /\ node'[n].ref + Carried(mgtq, n) + Flying(ring, n)
                 = node[n].ref + Carried(mgtq', n) + Flying(ring', n)
        BY <2>2, <4>1, <4>2, <4>3
      <4>5. QED
        BY <2>2, <3>2, <4>4, Zenon DEF Balanced
    <3>4. QED
      BY <1>3, <3>2, <3>3
  <2>5. QED
    BY <1>4, <2>3, <2>4 DEF SendIt, x
<1>5. ASSUME UNCHANGED mgtq, NEW q \in Rings, SendIt(ref_node(node, bss), bss, q) PROVE Moves
  <2> DEFINE nd == ref_node(node, bss)
  <2>1. /\ nd \in [Nodes -> Cells]
        /\ \A n \in Nodes : nd[n].ref = node[n].ref + One(n = bss) /\ nd[n].tab = node[n].tab
    BY <1>1, RefNode
  <2>2. ASSUME NEW n \in Nodes
        PROVE  /\ node[n].ref \in Nat /\ Flying(ring, n) \in Nat /\ One(n = bss) \in {0, 1}
               /\ Carried(mgtq', n) = Carried(mgtq, n) /\ Carried(mgtq, n) \in Nat
    BY <1>5, Shares DEF One
  <2> HIDE DEF nd
  <2>3. CASE iwm_tx(nd, bss, q)
    <3>1. node' = nd
      BY <2>3 DEF iwm_tx
    <3>2. ASSUME NEW n \in Nodes PROVE Balanced(n)
      <4>1. Flying(ring', n) = Flying(ring, n) + One(n = bss)
        BY <1>1, <2>3, TxFlies
      <4>2. node'[n].ref = node[n].ref + One(n = bss)
        BY <2>1, <3>1
      <4>3. /\ Flying(ring', n) \in Nat /\ Carried(mgtq', n) \in Nat
            /\ node'[n].ref + Carried(mgtq, n) + Flying(ring, n)
                 = node[n].ref + Carried(mgtq', n) + Flying(ring', n)
        BY <2>2, <4>1, <4>2
      <4>4. QED
        BY <2>1, <3>1, <4>3, Zenon DEF Balanced
    <3>3. QED
      BY <1>3, <2>1, <3>1, <3>2
  <2>4. CASE node' = free_node(nd, bss) /\ UNCHANGED ringVars
    <3>1. nd[bss].ref >= 1 + One(nd[bss].tab)
      <4>1. /\ One(node[bss].tab) \in Nat /\ One(bss = bss) = 1
            /\ Carried(mgtq, bss) \in Nat /\ Flying(ring, bss) \in Nat /\ lost[bss] \in Nat
            /\ node[bss].ref = One(node[bss].tab) + One(bss = bss) + Carried(mgtq, bss)
                               + Flying(ring, bss) + lost[bss]
        BY <1>1, Shares DEF One
      <4>2. nd[bss].ref = node[bss].ref + 1 /\ One(nd[bss].tab) = One(node[bss].tab)
        BY <1>1, <2>1, SMTT(30) DEF One
      <4>3. QED
        BY <4>1, <4>2
    <3>2. /\ node' \in [Nodes -> Cells]
          /\ \A n \in Nodes : node'[n].ref = nd[n].ref - One(n = bss) /\ node'[n].tab = nd[n].tab
      BY <1>1, <2>1, <2>4, <3>1, FreeNode
    <3>3. ASSUME NEW n \in Nodes PROVE Balanced(n)
      <4>1. Flying(ring', n) = Flying(ring, n)
        BY <2>4 DEF ringVars
      <4>2. node'[n].ref = (node[n].ref + One(n = bss)) - One(n = bss)
        BY <2>1, <3>2, SMTT(30)
      <4>3. /\ Flying(ring', n) \in Nat /\ Carried(mgtq', n) \in Nat
            /\ node'[n].ref + Carried(mgtq, n) + Flying(ring, n)
                 = node[n].ref + Carried(mgtq', n) + Flying(ring', n)
        BY <2>2, <4>1, <4>2
      <4>4. node'[n].tab = node[n].tab
        BY <2>1, <3>2
      <4>5. QED
        BY <4>3, <4>4, Zenon DEF Balanced
    <3>4. QED
      BY <1>3, <3>2, <3>3, SMTT(30)
  <2>5. QED
    BY <1>5, <2>3, <2>4 DEF SendIt, nd
<1>6. CASE UNCHANGED <<mgtq, node, ringVars>>
  <2>1. ASSUME NEW n \in Nodes PROVE Balanced(n)
    <3>1. mgtq' = mgtq /\ node' = node /\ ring' = ring
      BY <1>6, SMTT(30) DEF ringVars
    <3>2. Carried(mgtq, n) \in Nat /\ Flying(ring, n) \in Nat
      BY Shares, SMTT(30)
    <3>3. QED
      BY <3>1, <3>2, Zenon DEF Balanced
  <2>2. QED
    BY <1>1, <1>3, <1>6, <2>1
<1>7. QED
  BY <1>4, <1>5, <1>6, Zenon DEF StartLoop

\* The oldest frame of a ring that is with the firmware has its node.
LEMMA OldestIsNode ==
  ASSUME RingsInv, NEW q \in Rings, queued[q] > 0
  PROVE  /\ ring \in [Rings -> [Slots -> Nodes \cup {None}]]
         /\ Oldest(q) \in Slots /\ ring[q][Oldest(q)] \in Nodes
<1>1. /\ ring \in [Rings -> [Slots -> Nodes \cup {None}]] /\ cur[q] \in Slots
      /\ OneRing(ring[q], cur[q], queued[q]) /\ queued[q] \in Nat /\ queued[q] < Count
  BY RingAssumption, SMTT(30) DEF RingsInv
<1>2. queued[q] \in 1 .. queued[q] /\ Oldest(q) = Back(cur[q], queued[q])
  BY <1>1, SMTT(30) DEF Oldest, Back
<1>3. Oldest(q) \in Slots
  BY <1>1, <1>2, RingAssumption, SMTT(30) DEF Back, Slots
<1>4. ring[q][Oldest(q)] # None
  BY <1>1, <1>2, <1>3 DEF OneRing
<1>5. QED
  BY <1>1, <1>3, <1>4

\* A completion: the reference of the oldest frame goes back.
LEMMA DoneMoves == ASSUME RefTypes, NEW q \in Rings, TxDone(q) PROVE Moves
<1> DEFINE x == ring[q][Oldest(q)]
<1>1. RingsInv /\ node \in [Nodes -> Cells] /\ lost \in [Nodes -> Nat]
  BY DEF RefTypes, RingInv, HeapInv
<1>2. /\ ring \in [Rings -> [Slots -> Nodes \cup {None}]]
      /\ Oldest(q) \in Slots /\ x \in Nodes
  BY <1>1, OldestIsNode DEF TxDone
<1>3. ring' = Written(ring, q, Oldest(q), None)
  BY <1>2 DEF TxDone, Written
<1>4. node' = free_node(node, x) /\ mgtq' = mgtq /\ lost' = lost
  BY SMTT(30) DEF TxDone, history
<1>5. ASSUME NEW n \in Nodes
      PROVE  /\ Flying(ring, n) = Flying(ring', n) + One(n = x)
             /\ Flying(ring', n) \in Nat /\ One(n = x) \in {0, 1}
  BY <1>2, <1>3, FlyingWritten, FlyingType, SMTT(30) DEF One
<1> HIDE DEF x
<1>6. node[x].ref >= 1 + One(node[x].tab)
  <2>1. Flying(ring, x) >= 1
    BY <1>2, <1>5, SMTT(30) DEF One
  <2>2. /\ One(node[x].tab) \in Nat /\ One(bss = x) \in Nat
        /\ Carried(mgtq, x) \in Nat /\ Flying(ring, x) \in Nat /\ lost[x] \in Nat
        /\ node[x].ref = One(node[x].tab) + One(bss = x) + Carried(mgtq, x)
                           + Flying(ring, x) + lost[x]
    BY <1>2, Shares
  <2>3. QED
    BY <2>1, <2>2
<1>7. /\ node' \in [Nodes -> Cells]
      /\ \A n \in Nodes : node'[n].ref = node[n].ref - One(n = x) /\ node'[n].tab = node[n].tab
  BY <1>1, <1>2, <1>4, <1>6, FreeNode, SMTT(30)
<1>8. ASSUME NEW n \in Nodes
      PROVE  /\ Carried(mgtq', n) \in Nat /\ Flying(ring', n) \in Nat
             /\ node'[n].ref + Carried(mgtq, n) + Flying(ring, n) + lost[n]
                  = node[n].ref + Carried(mgtq', n) + Flying(ring', n) + lost'[n]
  <2>1. Carried(mgtq', n) = Carried(mgtq, n) /\ lost'[n] = lost[n]
    BY <1>4, SMTT(30)
  <2>2. node[n].ref \in Nat /\ Carried(mgtq, n) \in Nat /\ lost[n] \in Nat
    BY Shares
  <2>3. node'[n].ref = node[n].ref - One(n = x)
    BY <1>7, SMTT(30)
  <2>4. QED
    BY <1>5, <2>1, <2>2, <2>3
<1>9. QED
  BY <1>1, <1>4, <1>7, <1>8, Zenon DEF Moves

\* The cell the allocator hands out is free.
LEMMA FreshIsFree ==
  ASSUME NEW nd, FreshCell(nd) # None
  PROVE  FreshCell(nd) \in Nodes /\ nd[FreshCell(nd)].ref = 0
  BY DEF FreshCell

\* ieee80211_setup_node on a free cell.
LEMMA SetupNode ==
  ASSUME NEW nd \in [Nodes -> Cells], NEW c \in Nodes, NEW a \in APs \cup {Own}
  PROVE  /\ setup_node(nd, c, a) \in [Nodes -> Cells]
         /\ setup_node(nd, c, a)[c].ref = 1 /\ setup_node(nd, c, a)[c].tab = TRUE
         /\ \A n \in Nodes \ {c} : setup_node(nd, c, a)[n] = nd[n]
<1> DEFINE v == [ref |-> 1, mac |-> a, tab |-> TRUE]
<1>1. v \in Cells /\ v.ref = 1 /\ v.tab = TRUE
  BY DEF Cells
<1>2. setup_node(nd, c, a) = [nd EXCEPT ![c] = v]
  BY DEF setup_node
<1> HIDE DEF v
<1>3. QED
  BY <1>1, <1>2

\* A beacon of a new station: a free cell has no holder left.
LEMMA BeaconKeeps ==
  ASSUME RefTypes, NEW a \in APs, Beacon(a)
  PROVE  HeapInv' /\ \A n \in Nodes : node[n].tab => node'[n].tab
<1> DEFINE c == FreshCell(node)
<1>1. /\ c \in Nodes /\ node[c].ref = 0 /\ node' = setup_node(node, c, a)
      /\ bss' = bss /\ mgtq' = mgtq /\ ring' = ring /\ lost' = lost
  BY FreshIsFree DEF Beacon, ringVars, history
<1> HIDE DEF c
<1>2. node \in [Nodes -> Cells] /\ lost \in [Nodes -> Nat]
  BY DEF RefTypes, HeapInv
<1>3. /\ node' \in [Nodes -> Cells] /\ node'[c].ref = 1 /\ node'[c].tab = TRUE
      /\ \A n \in Nodes \ {c} : node'[n] = node[n]
  <2>1. node \in [Nodes -> Cells] /\ c \in Nodes /\ a \in APs \cup {Own}
    BY <1>1, <1>2
  <2>2. node' = setup_node(node, c, a)
    BY <1>1
  <2>3. QED
    BY <2>1, <2>2, SetupNode, Zenon
<1>4. ASSUME NEW n \in Nodes
      PROVE  node'[n].ref = One(node'[n].tab) + One(bss' = n) + Carried(mgtq', n)
                              + Flying(ring', n) + lost'[n]
  <2>1. /\ One(bss' = n) = One(bss = n) /\ Carried(mgtq', n) = Carried(mgtq, n)
        /\ Flying(ring', n) = Flying(ring, n) /\ lost'[n] = lost[n]
    BY <1>1, SMTT(30)
  <2>2. /\ One(node[n].tab) \in Nat /\ One(bss = n) \in Nat
        /\ Carried(mgtq, n) \in Nat /\ Flying(ring, n) \in Nat /\ lost[n] \in Nat
        /\ node[n].ref = One(node[n].tab) + One(bss = n) + Carried(mgtq, n)
                            + Flying(ring, n) + lost[n]
    BY Shares, SMTT(30)
  <2>3. CASE n = c
    <3>1. One(node'[n].tab) = 1 /\ node'[n].ref = 1 /\ node[n].ref = 0
      BY <1>1, <1>3, <2>3, SMTT(30) DEF One
    <3>2. QED
      BY <2>1, <2>2, <3>1
  <2>4. CASE n # c
    <3>1. One(node'[n].tab) = One(node[n].tab) /\ node'[n].ref = node[n].ref
      BY <1>3, <2>4
    <3>2. QED
      BY <2>1, <2>2, <3>1
  <2>5. QED
    BY <2>3, <2>4, SMTT(30)
<1>5. HeapInv'
  BY <1>1, <1>2, <1>3, <1>4, Recount
<1>6. \A n \in Nodes : node[n].tab => node'[n].tab
  BY <1>3
<1>7. QED
  BY <1>5, <1>6, SMTT(30)

\* freertos_associate: the reference of the lookup becomes that of ic_bss.
LEMMA AssociateKeeps ==
  ASSUME RefTypes, NEW a \in APs, Associate(a)
  PROVE  HeapInv' /\ node'[bss'].tab /\ \A n \in Nodes : node'[n].tab = node[n].tab
<1> DEFINE x == Found(node, a)
           nd == ref_node(node, x)
<1>1. /\ x \in Nodes /\ node[x].tab /\ bss' = x /\ node' = free_node(nd, bss)
      /\ mgtq' = mgtq /\ ring' = ring /\ lost' = lost
  BY DEF Associate, Found, ringVars, history
<1>2. node \in [Nodes -> Cells] /\ lost \in [Nodes -> Nat] /\ bss \in Nodes
  BY SMTT(30) DEF RefTypes, HeapInv, RingInv, PointersInv
<1>3. /\ nd \in [Nodes -> Cells]
      /\ \A n \in Nodes : nd[n].ref = node[n].ref + One(n = x) /\ nd[n].tab = node[n].tab
  BY <1>1, <1>2, RefNode, SMTT(30)
<1> HIDE DEF x, nd
<1>4. nd[bss].ref >= 1 + One(nd[bss].tab)
  <2>1. /\ One(node[bss].tab) \in Nat /\ One(bss = bss) = 1 /\ One(bss = x) \in Nat
        /\ Carried(mgtq, bss) \in Nat /\ Flying(ring, bss) \in Nat /\ lost[bss] \in Nat
        /\ node[bss].ref = One(node[bss].tab) + One(bss = bss) + Carried(mgtq, bss)
                             + Flying(ring, bss) + lost[bss]
    BY <1>2, Shares DEF One
  <2>2. nd[bss].ref = node[bss].ref + One(bss = x) /\ One(nd[bss].tab) = One(node[bss].tab)
    BY <1>2, <1>3, SMTT(30)
  <2>3. QED
    BY <2>1, <2>2
<1>5. /\ node' \in [Nodes -> Cells]
      /\ \A n \in Nodes : node'[n].ref = nd[n].ref - One(n = bss) /\ node'[n].tab = nd[n].tab
  BY <1>1, <1>2, <1>3, <1>4, FreeNode, SMTT(30)
<1>6. ASSUME NEW n \in Nodes
      PROVE  node'[n].ref = One(node'[n].tab) + One(bss' = n) + Carried(mgtq', n)
                              + Flying(ring', n) + lost'[n]
  <2>1. /\ One(bss' = n) = One(n = x) /\ One(n = bss) = One(bss = n)
        /\ One(n = x) \in Nat
    BY <1>1, SMTT(30) DEF One
  <2>2. /\ Carried(mgtq', n) = Carried(mgtq, n)
        /\ Flying(ring', n) = Flying(ring, n) /\ lost'[n] = lost[n]
    BY <1>1, SMTT(30)
  <2>3. /\ One(node[n].tab) \in Nat /\ One(bss = n) \in Nat
        /\ Carried(mgtq, n) \in Nat /\ Flying(ring, n) \in Nat /\ lost[n] \in Nat
        /\ node[n].ref = One(node[n].tab) + One(bss = n) + Carried(mgtq, n)
                            + Flying(ring, n) + lost[n]
    BY Shares
  <2>4. /\ node'[n].ref = (node[n].ref + One(n = x)) - One(n = bss)
        /\ One(node'[n].tab) = One(node[n].tab)
    BY <1>3, <1>5, SMTT(30)
  <2>5. QED
    BY <2>1, <2>2, <2>3, <2>4
<1>7. HeapInv'
  BY <1>1, <1>2, <1>5, <1>6, Recount, SMTT(30)
<1>8. \A n \in Nodes : node'[n].tab = node[n].tab
  BY <1>3, <1>5, SMTT(30)
<1>9. QED
  BY <1>1, <1>7, <1>8, SMTT(30)

\* ieee80211_drain_ifq: every queued frame gives its reference back.
LEMMA DrainQueue ==
  ASSUME RefTypes, NEW n \in Nodes
  PROVE  /\ drain_ifq(node, mgtq)[n] \in Cells
         /\ drain_ifq(node, mgtq)[n].tab = node[n].tab
         /\ drain_ifq(node, mgtq)[n].ref
              = One(node[n].tab) + One(bss = n) + Flying(ring, n) + lost[n]
<1> DEFINE k == Carried(mgtq, n)
           d == drain_ifq(node, mgtq)[n]
           r == node[n].ref
           rest == One(bss = n) + Flying(ring, n) + lost[n]
<1>1. d = IF r = k THEN FreeCell ELSE [node[n] EXCEPT !.ref = r - k]
  BY SMTT(30) DEF drain_ifq
<1>2. node[n] \in Cells /\ node[n].tab \in BOOLEAN
  BY Shares, SMTT(30)
<1>3. k \in Nat /\ rest \in Nat /\ r = One(node[n].tab) + k + rest
  BY Shares, SMTT(30)
<1>4. One(node[n].tab) + One(bss = n) + Flying(ring, n) + lost[n] = One(node[n].tab) + rest
  BY Shares, SMTT(30)
<1> HIDE DEF k, d, r, rest
<1>5. CASE node[n].tab = TRUE
  <2>1. One(node[n].tab) = 1
    BY <1>5 DEF One
  <2>2. r # k /\ r - k \in Nat /\ r - k = One(node[n].tab) + rest
    BY <1>3, <2>1
  <2>3. d \in Cells /\ d.tab = node[n].tab /\ d.ref = r - k
    BY <1>1, <1>2, <2>2, SMTT(30) DEF Cells
  <2>4. QED
    BY <1>4, <2>2, <2>3 DEF d
<1>6. CASE node[n].tab = FALSE
  <2>1. One(node[n].tab) = 0
    BY <1>6 DEF One
  <2>2. r - k \in Nat /\ r - k = One(node[n].tab) + rest
    BY <1>3, <2>1, SMTT(30)
  <2>3. CASE r = k
    <3>1. d \in Cells /\ d.ref = 0 /\ d.tab = FALSE
      BY <1>1, <2>3 DEF FreeCell, Cells
    <3>2. 0 = One(node[n].tab) + rest
      BY <1>3, <2>2, <2>3, SMTT(30)
    <3>3. QED
      BY <1>4, <1>6, <3>1, <3>2, Zenon DEF d
  <2>4. CASE r # k
    <3>1. d \in Cells /\ d.tab = node[n].tab /\ d.ref = r - k
      BY <1>1, <1>2, <2>2, <2>4, SMTT(30) DEF Cells
    <3>2. QED
      BY <1>4, <2>2, <3>1 DEF d
  <2>5. QED
    BY <2>3, <2>4
<1>7. QED
  BY <1>2, <1>5, <1>6, Zenon

\* ieee80211_node_table_reset: the table's references go, nobody else's.
LEMMA TableReset ==
  ASSUME RefTypes, NEW n \in Nodes
  PROVE  /\ table_reset(drain_ifq(node, mgtq))[n] \in Cells
         /\ table_reset(drain_ifq(node, mgtq))[n].tab = FALSE
         /\ table_reset(drain_ifq(node, mgtq))[n].ref = One(bss = n) + Flying(ring, n) + lost[n]
<1> DEFINE dd == drain_ifq(node, mgtq)
           d == dd[n]
           t == table_reset(dd)[n]
           rest == One(bss = n) + Flying(ring, n) + lost[n]
<1>1. d \in Cells /\ d.tab \in BOOLEAN /\ d.ref \in Nat /\ n \in DOMAIN dd
  BY DrainQueue, SMTT(30) DEF Cells, drain_ifq
<1>2. rest \in Nat /\ d.ref = One(d.tab) + rest
  <2>1. d.tab = node[n].tab /\ d.ref = One(node[n].tab) + One(bss = n) + Flying(ring, n) + lost[n]
    BY DrainQueue, SMTT(30)
  <2>2. /\ One(node[n].tab) \in Nat /\ One(bss = n) \in Nat
        /\ Flying(ring, n) \in Nat /\ lost[n] \in Nat
    BY Shares, SMTT(30)
  <2>3. QED
    BY <2>1, <2>2, SMTT(30)
<1>3. t = IF d.tab THEN node_reclaim(dd, n)[n] ELSE d
  BY DEF table_reset
<1>4. node_reclaim(dd, n)[n] =
        IF d.ref = 1 THEN FreeCell ELSE [d EXCEPT !.ref = d.ref - 1, !.tab = FALSE]
  BY <1>1, SMTT(30) DEF node_reclaim
<1> HIDE DEF d, t, rest
<1>5. CASE d.tab
  <2>1. d.ref = 1 + rest
    BY <1>2, <1>5, SMTT(30) DEF One
  <2>2. CASE d.ref = 1
    <3>1. t = FreeCell
      BY <1>3, <1>4, <1>5, <2>2
    <3>2. rest = 0
      BY <1>2, <2>1, <2>2
    <3>3. t \in Cells /\ t.tab = FALSE /\ t.ref = 0
      BY <3>1, SMTT(30) DEF FreeCell, Cells
    <3>4. QED
      BY <3>2, <3>3 DEF t, rest
  <2>3. CASE d.ref # 1
    <3>1. t = [d EXCEPT !.ref = d.ref - 1, !.tab = FALSE]
      BY <1>3, <1>4, <1>5, <2>3
    <3>2. d.ref - 1 = rest
      BY <1>2, <2>1
    <3>3. t \in Cells /\ t.tab = FALSE /\ t.ref = rest
      BY <1>1, <1>2, <3>1, <3>2, Zenon DEF Cells
    <3>4. QED
      BY <3>3 DEF t, rest
  <2>4. QED
    BY <2>2, <2>3, Zenon
<1>6. CASE ~d.tab
  <2>1. t = d /\ d.tab = FALSE /\ d.ref = rest
    BY <1>1, <1>2, <1>3, <1>6 DEF One
  <2>2. QED
    BY <1>1, <2>1, SMTT(30) DEF t, rest
<1>7. QED
  BY <1>5, <1>6, Zenon

\* ieee80211_reset_bss: the new ic_bss is a fresh node of the table; the old
\* one loses its reference, and is another cell because that reference kept
\* it from being handed out.
LEMMA ResetBssKeeps ==
  ASSUME RefTypes, ResetBss
  PROVE  HeapInv' /\ bss' \in Nodes /\ node'[bss'].tab
<1> DEFINE t == table_reset(drain_ifq(node, mgtq))
           c == FreshCell(t)
           u == setup_node(t, c, Own)
           v == ref_node(u, c)
<1>1. /\ c # None /\ bss' = c /\ node' = free_node(v, bss)
      /\ mgtq' = <<>> /\ ring' = ring /\ lost' = lost
  BY DEF ResetBss, ringVars, history
<1>2. c \in Nodes /\ t[c].ref = 0
  BY <1>1, FreshIsFree, Zenon
<1>3. bss \in Nodes /\ lost \in [Nodes -> Nat]
  BY DEF RefTypes, HeapInv, RingInv, PointersInv
<1>4. t \in [Nodes -> Cells]
  <2>1. t = [n \in Nodes |-> t[n]]
    BY DEF table_reset
  <2>2. \A n \in Nodes : t[n] \in Cells
    BY TableReset, Zenon
  <2> HIDE DEF t
  <2>3. QED
    BY <2>1, <2>2, SMTT(30)
<1>5. ASSUME NEW n \in Nodes
      PROVE  t[n].tab = FALSE /\ t[n].ref = One(bss = n) + Flying(ring, n) + lost[n]
  BY TableReset, Zenon
<1> HIDE DEF t, c
<1>6. /\ u \in [Nodes -> Cells] /\ u[c].ref = 1 /\ u[c].tab = TRUE
      /\ \A n \in Nodes \ {c} : u[n] = t[n]
  <2>1. Own \in APs \cup {Own}
    BY SMTT(30)
  <2>2. QED
    BY <1>2, <1>4, <2>1, SetupNode, Zenon
<1> HIDE DEF u
<1>7. /\ v \in [Nodes -> Cells]
      /\ \A n \in Nodes : v[n].ref = u[n].ref + One(n = c) /\ v[n].tab = u[n].tab
  BY <1>2, <1>6, RefNode
<1> HIDE DEF v
<1>8. ASSUME NEW n \in Nodes
      PROVE  /\ One(bss = n) \in Nat /\ Flying(ring, n) \in Nat /\ lost[n] \in Nat
             /\ t[n].ref = One(bss = n) + Flying(ring, n) + lost[n]
  <2>1. One(bss = n) \in Nat /\ Flying(ring, n) \in Nat /\ lost[n] \in Nat
    BY Shares
  <2>2. QED
    BY <1>5, <2>1, Zenon
<1>9. bss # c
  <2>1. t[bss].ref >= 1
    <3>1. One(bss = bss) = 1
      BY SMTT(30) DEF One
    <3>2. QED
      BY <1>3, <1>8, <3>1
  <2>2. QED
    BY <1>2, <2>1, SMTT(30)
<1>10. v[bss].ref >= 1 + One(v[bss].tab)
  <2>1. One(bss = c) = 0 /\ One(bss = bss) = 1
    BY <1>9 DEF One
  <2>2. v[bss].tab = FALSE /\ v[bss].ref = t[bss].ref + 0
    <3>1. u[bss] = t[bss] /\ t[bss].tab = FALSE
      BY <1>3, <1>5, <1>6, <1>9, Zenon
    <3>2. v[bss].ref = u[bss].ref + One(bss = c) /\ v[bss].tab = u[bss].tab
      BY <1>3, <1>7, SMTT(30)
    <3>3. QED
      BY <2>1, <3>1, <3>2, Zenon
  <2>3. One(v[bss].tab) = 0
    BY <2>2, SMTT(30) DEF One
  <2>4. /\ Flying(ring, bss) \in Nat /\ lost[bss] \in Nat
        /\ t[bss].ref = One(bss = bss) + Flying(ring, bss) + lost[bss]
    BY <1>3, <1>8, SMTT(30)
  <2>5. QED
    BY <2>1, <2>2, <2>3, <2>4
<1>11. /\ node' \in [Nodes -> Cells]
       /\ \A n \in Nodes : node'[n].ref = v[n].ref - One(n = bss) /\ node'[n].tab = v[n].tab
  BY <1>1, <1>3, <1>7, <1>10, FreeNode, SMTT(30)
<1>12. ASSUME NEW n \in Nodes
       PROVE  node'[n].ref = One(node'[n].tab) + One(bss' = n) + Carried(mgtq', n)
                               + Flying(ring', n) + lost'[n]
  <2>1. Carried(mgtq', n) = 0 /\ Flying(ring', n) = Flying(ring, n) /\ lost'[n] = lost[n]
    BY <1>1, CarriedNone, SMTT(30)
  <2>2. CASE n = c
    <3>1. One(n = c) = 1 /\ One(n = bss) = 0 /\ One(bss' = n) = 1
      BY <1>1, <1>9, <2>2, SMTT(30) DEF One
    <3>2. node'[n].tab = TRUE /\ node'[n].ref = (1 + 1) - 0
      BY <1>2, <1>6, <1>7, <1>11, <2>2, <3>1, SMTT(30)
    <3>3. One(node'[n].tab) = 1
      BY <3>2, SMTT(30) DEF One
    <3>4. Flying(ring, n) = 0 /\ lost[n] = 0
      <4>1. t[n].ref = 0
        BY <1>2, <2>2, SMTT(30)
      <4>2. QED
        BY <1>8, <4>1, SMTT(30)
    <3>5. QED
      BY <2>1, <3>1, <3>2, <3>3, <3>4
  <2>3. CASE n # c
    <3>1. One(n = c) = 0 /\ One(n = bss) = One(bss = n) /\ One(bss' = n) = 0
      BY <1>1, <2>3 DEF One
    <3>2. node'[n].tab = FALSE /\ node'[n].ref = (t[n].ref + One(n = c)) - One(n = bss)
      <4>1. u[n] = t[n] /\ t[n].tab = FALSE
        BY <1>5, <1>6, <2>3, Zenon
      <4>2. v[n].ref = u[n].ref + One(n = c) /\ v[n].tab = u[n].tab
        BY <1>7, SMTT(30)
      <4>3. node'[n].ref = v[n].ref - One(n = bss) /\ node'[n].tab = v[n].tab
        BY <1>11
      <4>4. QED
        BY <4>1, <4>2, <4>3, Zenon
    <3>3. One(bss = n) \in Nat
      BY <1>8, SMTT(30)
    <3>4. One(node'[n].tab) = 0
      BY <3>2, SMTT(30) DEF One
    <3>5. QED
      BY <1>8, <2>1, <3>1, <3>2, <3>3, <3>4
  <2>4. QED
    BY <2>2, <2>3
<1>13. HeapInv'
  BY <1>1, <1>3, <1>11, <1>12, Recount, SMTT(30)
<1>14. node'[bss'].tab
  BY <1>1, <1>2, <1>6, <1>7, <1>11
<1>15. QED
  BY <1>1, <1>2, <1>13, <1>14, SMTT(30)

\* The initial state: the table's reference and that of ic_bss.
LEMMA HeapInit == Init => HeapInv
<1> SUFFICES ASSUME Init PROVE HeapInv
  OBVIOUS
<1> DEFINE first == [ref |-> 2, mac |-> Own, tab |-> TRUE]
<1>1. /\ node = [n \in Nodes |-> IF n = 1 THEN first ELSE FreeCell]
      /\ lost = [n \in Nodes |-> 0] /\ bss = 1 /\ mgtq = <<>>
      /\ ring = [q \in Rings |-> [i \in Slots |-> None]]
  BY DEF Init
<1>2. /\ first \in Cells /\ first.ref = 2 /\ first.tab = TRUE
      /\ FreeCell \in Cells /\ FreeCell.ref = 0 /\ FreeCell.tab = FALSE
  BY DEF Cells, FreeCell
<1> HIDE DEF first
<1>3. node \in [Nodes -> Cells] /\ lost \in [Nodes -> Nat]
  BY <1>1, <1>2
<1>4. ASSUME NEW n \in Nodes PROVE node[n].ref = Owed(n)
  <2>1. Carried(mgtq, n) = 0 /\ Flying(ring, n) = 0 /\ lost[n] = 0
    BY <1>1, CarriedNone, FlyingNone, SMTT(30)
  <2>2. CASE n = 1
    <3>1. node[n].ref = 2 /\ One(node[n].tab) = 1 /\ One(bss = n) = 1
      BY <1>1, <1>2, <2>2, SMTT(30) DEF One
    <3>2. QED
      BY <2>1, <3>1 DEF Owed
  <2>3. CASE n # 1
    <3>1. node[n].ref = 0 /\ One(node[n].tab) = 0 /\ One(bss = n) = 0
      BY <1>1, <1>2, <2>3 DEF One
    <3>2. QED
      BY <2>1, <3>1 DEF Owed
  <2>4. QED
    BY <2>2, <2>3
<1>5. QED
  BY <1>3, <1>4, SMTT(30) DEF HeapInv

\* What every step but the reset of the BSS keeps: nodes stay in the table,
\* and ic_bss is what it was or another node of the table.
TabsStay ==
  /\ \A n \in Nodes : node[n].tab => node'[n].tab
  /\ bss' = bss \/ node'[bss'].tab

\* The counts stay exact, whoever moves.
LEMMA HeapNext ==
  ASSUME RefTypes, [Next]_vars
  PROVE  HeapInv' /\ (TabsStay \/ (ResetBss /\ node'[bss'].tab))
<1>1. ASSUME Moves, bss' = bss PROVE HeapInv' /\ TabsStay
  <2>1. HeapInv'
    BY <1>1, MovesKeep, SMTT(30)
  <2>2. \A n \in Nodes : node'[n].tab = node[n].tab
    BY <1>1 DEF Moves
  <2>3. QED
    BY <1>1, <2>1, <2>2, Zenon DEF TabsStay
<1>2. CASE StartLoop
  <2>1. bss' = bss
    BY <1>2 DEF StartLoop
  <2>2. QED
    BY <1>1, <1>2, <2>1, LoopMoves
<1>3. CASE ResetBss
  BY <1>3, ResetBssKeeps, Zenon
<1>4. ASSUME NEW q \in Rings, TxDone(q) PROVE HeapInv' /\ TabsStay
  BY <1>1, <1>4, DoneMoves, Zenon DEF TxDone
<1>5. ASSUME NEW a \in APs, Beacon(a) PROVE HeapInv' /\ TabsStay
  BY <1>5, BeaconKeeps, Zenon DEF Beacon, TabsStay
<1>6. ASSUME NEW a \in APs, Associate(a) PROVE HeapInv' /\ TabsStay
  BY <1>6, AssociateKeeps, Zenon DEF TabsStay
<1>7. ASSUME NEW x \in Nodes, Queues(x), MayReset, bss' = bss PROVE HeapInv' /\ TabsStay
  BY <1>1, <1>7, HandlerMoves, Zenon
<1>8. /\ bss \in Nodes
      /\ UNCHANGED ringVars => UNCHANGED ring
      /\ UNCHANGED history => UNCHANGED lost
  BY DEF RefTypes, RingInv, PointersInv, ringVars, history
<1>9. \/ StartLoop \/ ResetBss \/ (\E q \in Rings : TxDone(q))
      \/ (\E a \in APs : Beacon(a) \/ Associate(a))
      \/ /\ \E x \in Nodes : Queues(x)
         /\ ResetRings \/ (UNCHANGED ring /\ UNCHANGED lost)
         /\ UNCHANGED bss
  BY <1>8, Zenon DEF Next, Holder, Worker, StartEnd, StopDevice, WorkerCommand, WorkerDone,
     WorkerFailed, WorkerScan, WorkerForce, WorkerUp, WorkerInit, WorkerRestart, WorkerSecondImage,
     WorkerRestarted, LeaveBss, SendMgmt, Output, Fatal, vars, Queues
<1>10. ResetRings \/ (UNCHANGED ring /\ UNCHANGED lost) => MayReset
  BY DEF MayReset
<1>11. QED
  BY <1>2, <1>3, <1>4, <1>5, <1>6, <1>7, <1>9, <1>10, Zenon

-----------------------------------------------------------------------------
(* References: the table, the worker's pointer and the flags *)

\* What a holder of the serializer is doing, and what is left after it.
LEMMA TodoTails ==
  ASSUME todo \in Todos, ~Idle
  PROVE  /\ Tail(todo) \in Todos
         /\ Head(todo) = "start" =>
              /\ todo \in {<<"start">>, <<"start", "reset">>, <<"start", "reset", "stop">>}
              /\ todo = <<"start">> <=> Tail(todo) = <<>>
              /\ todo = <<"start", "reset">> <=> Tail(todo) = <<"reset">>
              /\ todo = <<"start", "reset", "stop">> <=> Tail(todo) = <<"reset", "stop">>
         /\ Head(todo) = "reset" =>
              /\ todo \in {<<"reset">>, <<"reset", "stop">>}
              /\ todo = <<"reset">> <=> Tail(todo) = <<>>
              /\ todo = <<"reset", "stop">> <=> Tail(todo) = <<"stop">>
         /\ Head(todo) = "stop" => todo = <<"stop">> /\ Tail(todo) = <<>>
<1>1. /\ Tail(<<"start">>) = <<>> /\ Tail(<<"reset">>) = <<>> /\ Tail(<<"stop">>) = <<>>
      /\ Tail(<<"start", "reset">>) = <<"reset">> /\ Tail(<<"reset", "stop">>) = <<"stop">>
      /\ Tail(<<"start", "reset", "stop">>) = <<"reset", "stop">>
  OBVIOUS
<1>2. /\ Head(<<"start">>) = "start" /\ Head(<<"reset">>) = "reset" /\ Head(<<"stop">>) = "stop"
      /\ Head(<<"start", "reset">>) = "start" /\ Head(<<"reset", "stop">>) = "reset"
      /\ Head(<<"start", "reset", "stop">>) = "start"
  OBVIOUS
<1>3. /\ <<>> # <<"reset">> /\ <<>> # <<"stop">> /\ <<>> # <<"reset", "stop">>
      /\ <<"reset">> # <<"reset", "stop">> /\ <<"start">> # <<"start", "reset">>
      /\ <<"start">> # <<"start", "reset", "stop">>
      /\ <<"start", "reset">> # <<"start", "reset", "stop">>
  OBVIOUS
<1>4. QED
  BY <1>1, <1>2, <1>3, Zenon DEF Todos, Idle

\* Short sequences put together.
LEMMA ShortConcat ==
  /\ \A a, b : <<a>> \o <<b>> = <<a, b>>
  /\ \A a, b, c : <<a, b>> \o <<c>> = <<a, b, c>>
<1>1. ASSUME NEW a, NEW b PROVE <<a>> \o <<b>> = <<a, b>>
  <2> DEFINE s == <<a>> \o <<b>>
  <2>1. s \in Seq({a, b}) /\ Len(s) = 2 /\ s[1] = a /\ s[2] = b
    OBVIOUS
  <2> HIDE DEF s
  <2>2. s = <<a, b>>
    BY <2>1
  <2>3. QED
    BY <2>2 DEF s
<1>2. ASSUME NEW a, NEW b, NEW c PROVE <<a, b>> \o <<c>> = <<a, b, c>>
  <2> DEFINE s == <<a, b>> \o <<c>>
  <2>1. s \in Seq({a, b, c}) /\ Len(s) = 3 /\ s[1] = a /\ s[2] = b /\ s[3] = c
    OBVIOUS
  <2> HIDE DEF s
  <2>2. s = <<a, b, c>>
    BY <2>1
  <2>3. QED
    BY <2>2 DEF s
<1>3. QED
  BY <1>1, <1>2

\* What LeaveBss leaves to do.
LEMMA LeaveTodo ==
  /\ LeaveBss(<<>>) => todo' \in {<<"reset">>, <<"start", "reset">>}
  /\ LeaveBss(<<"stop">>) => todo' \in {<<"reset", "stop">>, <<"start", "reset", "stop">>}
<1>1. <<"reset">> \o <<>> = <<"reset">> /\ <<"start", "reset">> \o <<>> = <<"start", "reset">>
  OBVIOUS
<1>2. QED
  BY <1>1, ShortConcat, Zenon DEF LeaveBss

\* What a step does to the worker's pointer and to the rest of a handler.
WorkerSteps ==
  \/ UNCHANGED <<wpc, win, todo>>
  \/ Idle /\ todo' = <<"start">> /\ UNCHANGED <<wpc, win>>
  \/ (StartEnd \/ ResetBss \/ StopDevice) /\ ~Idle /\ todo' = Tail(todo) /\ UNCHANGED <<wpc, win>>
  \/ Idle /\ wpc' \in {"AUTH", "ASSOC", "RUN"} /\ win' = bss /\ bss' = bss /\ todo' = todo
  \/ Idle /\ win' = None /\ todo' \in {<<>>, <<"start">>}
  \/ Idle /\ wpc \notin {"AUTH", "ASSOC", "RUN"} /\ win' = win /\ todo' \in Todos

\* Every step is one of these.
LEMMA WorkerStepsAll == ASSUME [Next]_vars PROVE WorkerSteps
<1>1. UNCHANGED workVars => UNCHANGED wpc /\ UNCHANGED win
  BY DEF workVars
<1>2. ASSUME LeaveBss(<<>>) \/ LeaveBss(<<"stop">>) PROVE todo' \in Todos
  BY <1>2, LeaveTodo DEF Todos
<1>3. ASSUME UNCHANGED wpc /\ UNCHANGED win, UNCHANGED todo PROVE WorkerSteps
  BY <1>3 DEF WorkerSteps
<1>4. ASSUME Idle, todo' = <<"start">>, UNCHANGED wpc /\ UNCHANGED win PROVE WorkerSteps
  BY <1>4 DEF WorkerSteps
<1>5. CASE Holder
  <2>1. CASE StartLoop
    BY <1>1, <1>3, <2>1, Zenon DEF StartLoop
  <2>2. CASE StartEnd \/ ResetBss \/ StopDevice
    <3>1. ~Idle /\ todo' = Tail(todo) /\ UNCHANGED wpc /\ UNCHANGED win
      BY <1>1, <2>2, Zenon DEF StartEnd, ResetBss, StopDevice
    <3>2. QED
      BY <2>2, <3>1 DEF WorkerSteps
  <2>3. QED
    BY <1>5, <2>1, <2>2 DEF Holder
<1>6. CASE WorkerDone
  <2>1. Idle /\ win' = None /\ todo' \in {<<>>, <<"start">>}
    BY <1>6 DEF WorkerDone, Idle
  <2>2. QED
    BY <2>1 DEF WorkerSteps
<1>7. ASSUME NEW ns \in {"AUTH", "ASSOC", "RUN"}, WorkerCommand(ns) PROVE WorkerSteps
  BY <1>7 DEF WorkerCommand, WorkerFree, WorkerSteps
<1>8. CASE WorkerFailed
  BY <1>8 DEF WorkerFailed, WorkerSteps, Idle
<1>9. CASE WorkerForce \/ WorkerInit \/ WorkerRestarted
  <2>1. Idle /\ wpc \notin {"AUTH", "ASSOC", "RUN"}
    BY <1>9 DEF WorkerForce, WorkerInit, WorkerRestarted, WorkerFree
  <2>2. win' = win
    BY <1>9, Zenon DEF WorkerForce, WorkerInit, WorkerRestarted
  <2>3. todo' \in Todos
    BY <1>2, <1>9, Zenon DEF WorkerForce, WorkerInit, WorkerRestarted
  <2>4. QED
    BY <2>1, <2>2, <2>3 DEF WorkerSteps
<1>10. CASE WorkerUp \/ WorkerRestart \/ WorkerSecondImage \/ WorkerScan
  <2>1. Idle /\ wpc \notin {"AUTH", "ASSOC", "RUN"}
    BY <1>10 DEF WorkerUp, WorkerRestart, WorkerSecondImage, WorkerScan, WorkerFree
  <2>2. win' = win /\ todo' = todo
    BY <1>10, Zenon DEF WorkerUp, WorkerRestart, WorkerSecondImage, WorkerScan
  <2>3. QED
    BY <2>1, <2>2, SMTT(30) DEF WorkerSteps, Idle, Todos
<1>11. ASSUME NEW q \in Rings, TxDone(q) PROVE WorkerSteps
  <2>1. Idle /\ (todo' = <<"start">> \/ todo' = todo)
    BY <1>11, Zenon DEF TxDone
  <2>2. UNCHANGED wpc /\ UNCHANGED win
    BY <1>1, <1>11, Zenon DEF TxDone
  <2>3. QED
    BY <1>3, <1>4, <2>1, <2>2, Zenon
<1>12. ASSUME NEW n \in Nodes, SendMgmt(n) PROVE WorkerSteps
  BY <1>1, <1>4, <1>12, Zenon DEF SendMgmt
<1>13. CASE Output
  BY <1>1, <1>4, <1>13, Zenon DEF Output
<1>14. ASSUME NEW a \in APs, Beacon(a) \/ Associate(a) PROVE WorkerSteps
  BY <1>1, <1>3, <1>14, Zenon DEF Beacon, Associate
<1>15. CASE Fatal
  BY <1>1, <1>3, <1>15, Zenon DEF Fatal
<1>16. CASE UNCHANGED vars
  BY <1>1, <1>3, <1>16, Zenon DEF vars
<1>17. QED
  BY <1>5, <1>6, <1>7, <1>8, <1>9, <1>10, <1>11, <1>12, <1>13, <1>14, <1>15, <1>16, Zenon
     DEF Next, Worker

\* ic_bss and the worker's pointer stay in the table.
LEMMA TableNext ==
  ASSUME RefTypes, TableInv, [Next]_vars
  PROVE  TableInv'
<1>1. /\ todo \in Todos /\ node[bss].tab /\ win \in Nodes \cup {None} /\ bss \in Nodes
      /\ win # None => node[win].tab /\ wpc \in {"AUTH", "ASSOC", "RUN"}
      /\ todo \notin {<<>>, <<"start">>} => win = None
  BY DEF TableInv, RefTypes, RingInv, PointersInv
<1>2. /\ WorkerSteps
      /\ TabsStay \/ (ResetBss /\ node'[bss'].tab)
  BY WorkerStepsAll, HeapNext, SMTT(30)
<1>3. node'[bss'].tab
  BY <1>1, <1>2 DEF TabsStay
<1>4. todo' \in Todos
  <2>1. {<<>>, <<"start">>} \subseteq Todos
    BY DEF Todos
  <2>2. ~Idle => Tail(todo) \in Todos
    BY <1>1, TodoTails
  <2>3. QED
    BY <1>1, <1>2, <2>1, <2>2, Zenon DEF WorkerSteps
<1>5. Idle => todo \in {<<>>, <<"start">>}
  BY DEF Idle
<1>6. todo \in {<<>>, <<"start">>} => Idle \/ Tail(todo) = <<>>
  <2>1. Tail(<<"start">>) = <<>>
    OBVIOUS
  <2>2. QED
    BY <2>1, Zenon DEF Idle
<1>7. /\ win' \in Nodes \cup {None}
      /\ win' # None =>
           /\ wpc' \in {"AUTH", "ASSOC", "RUN"} /\ todo' \in {<<>>, <<"start">>}
           /\ (win' = win /\ node[win].tab) \/ (win' = bss /\ bss' = bss)
  <2>1. CASE UNCHANGED <<wpc, win, todo>>
    BY <1>1, <2>1
  <2>2. CASE Idle /\ todo' = <<"start">> /\ UNCHANGED <<wpc, win>>
    BY <1>1, <2>2
  <2>3. CASE ~Idle /\ todo' = Tail(todo) /\ UNCHANGED <<wpc, win>>
    BY <1>1, <1>6, <2>3
  <2>4. CASE wpc' \in {"AUTH", "ASSOC", "RUN"} /\ win' = bss /\ bss' = bss /\ todo' = todo /\ Idle
    BY <1>1, <1>5, <2>4
  <2>5. CASE win' = None
    BY <2>5
  <2>6. CASE wpc \notin {"AUTH", "ASSOC", "RUN"} /\ win' = win
    BY <1>1, <2>6
  <2>7. QED
    BY <1>2, <2>1, <2>2, <2>3, <2>4, <2>5, <2>6, Zenon DEF WorkerSteps
<1>8. win' # None => node'[win'].tab
  <2>1. ASSUME win' # None PROVE node'[win'].tab
    <3>1. win' \in Nodes
      BY <1>7, <2>1
    <3>2. CASE win' = bss /\ bss' = bss
      BY <1>3, <3>2
    <3>3. CASE win' = win /\ node[win].tab
      <4>1. ~ResetBss
        <5>1. ASSUME ResetBss PROVE FALSE
          <6>1. ~Idle /\ Head(todo) = "reset"
            BY <5>1, SMTT(30) DEF ResetBss
          <6>2. todo \in {<<"reset">>, <<"reset", "stop">>}
            BY <1>1, <6>1, TodoTails
          <6>3. <<"reset">> # <<>> /\ <<"reset">> # <<"start">>
                /\ <<"reset", "stop">> # <<>> /\ <<"reset", "stop">> # <<"start">>
            OBVIOUS
          <6>4. QED
            BY <1>1, <2>1, <3>3, <6>2, <6>3, SMTT(30)
        <5>2. QED
          BY <5>1
      <4>2. QED
        BY <1>2, <3>1, <3>3, <4>1 DEF TabsStay
    <3>4. QED
      BY <1>7, <2>1, <3>2, <3>3
  <2>2. QED
    BY <2>1, SMTT(30)
<1>9. QED
  BY <1>3, <1>4, <1>7, <1>8, Zenon DEF TableInv

\* A forced transition: until the device is up, nothing is queued.
LEMMA UpNext ==
  ASSUME todo \in Todos, UpInv, [Next]_vars
  PROVE  UpInv'
<1>1. UNCHANGED workVars => wpc' = wpc
  BY SMTT(30) DEF workVars
<1>2. ASSUME wpc' # "UP" PROVE UpInv'
  BY <1>2, SMTT(30) DEF UpInv
<1>3. ASSUME wpc' = wpc, mgtq' = mgtq \/ (mgtq = <<>> => mgtq' = <<>>), hw' = hw, todo' = todo
      PROVE UpInv'
  BY <1>3 DEF UpInv
<1>4. ASSUME Idle, wpc = "UP" PROVE mgtq = <<>> /\ hw = "off"
  <2>1. /\ <<>> # <<"start", "reset", "stop">> /\ <<>> # <<"reset", "stop">> /\ <<>> # <<"stop">>
    BY SMTT(30)
  <2>2. QED
    BY <1>4, <2>1 DEF UpInv, Idle
<1>5. CASE StartEnd
  <2>1. /\ ~Idle /\ Head(todo) = "start" /\ todo' = Tail(todo) /\ mgtq' = mgtq /\ hw' = hw
        /\ wpc' = wpc
    BY <1>1, <1>5, Zenon DEF StartEnd
  <2>2. /\ todo \in {<<"start">>, <<"start", "reset">>, <<"start", "reset", "stop">>}
        /\ todo = <<"start", "reset", "stop">> => todo' = <<"reset", "stop">>
    BY <2>1, TodoTails
  <2>3. \A t \in {<<"start">>, <<"start", "reset">>, <<"start", "reset", "stop">>} :
          t # <<"stop">> /\ t # <<"reset", "stop">>
    OBVIOUS
  <2>4. QED
    BY <2>1, <2>2, <2>3 DEF UpInv
<1>6. CASE StartLoop
  <2>1. wpc' = wpc /\ hw' = hw /\ todo' = todo /\ (mgtq = <<>> => mgtq' = <<>>)
    BY <1>1, <1>6, Zenon DEF StartLoop
  <2>2. QED
    BY <1>3, <2>1
<1>7. CASE ResetBss
  <2>1. /\ ~Idle /\ Head(todo) = "reset" /\ todo' = Tail(todo) /\ mgtq' = <<>> /\ hw' = hw
        /\ wpc' = wpc
    BY <1>1, <1>7, Zenon DEF ResetBss
  <2>2. /\ todo \in {<<"reset">>, <<"reset", "stop">>}
        /\ todo = <<"reset", "stop">> => todo' = <<"stop">>
    BY <2>1, TodoTails
  <2>3. <<"reset">> # <<"stop">> /\ <<"reset">> # <<"reset", "stop">>
        /\ <<"reset">> # <<"start", "reset", "stop">>
    OBVIOUS
  <2>4. QED
    BY <2>1, <2>2, <2>3 DEF UpInv
<1>8. CASE StopDevice
  <2>1. ~Idle /\ Head(todo) = "stop" /\ mgtq' = mgtq /\ hw' = "off" /\ wpc' = wpc
    BY <1>1, <1>8, Zenon DEF StopDevice
  <2>2. todo = <<"stop">>
    BY <2>1, TodoTails
  <2>3. <<"stop">> # <<"reset", "stop">> /\ <<"stop">> # <<"start", "reset", "stop">>
    OBVIOUS
  <2>4. QED
    BY <2>1, <2>2, <2>3 DEF UpInv
<1>9. ASSUME Idle, wpc' = wpc, hw' = hw \/ hw' = "off", wpc = "UP" => mgtq' = mgtq
      PROVE  UpInv'
  BY <1>4, <1>9 DEF UpInv
<1>10. ASSUME NEW n \in Nodes, SendMgmt(n) PROVE UpInv'
  <2>1. Idle /\ hw = "on" /\ wpc' = wpc /\ hw' = hw
    BY <1>1, <1>10, Zenon DEF SendMgmt
  <2>2. QED
    BY <1>4, <2>1 DEF UpInv
<1>11. ASSUME NEW q \in Rings, TxDone(q) PROVE UpInv'
  <2>1. Idle /\ wpc' = wpc /\ hw' = hw /\ mgtq' = mgtq
    BY <1>1, <1>11, Zenon DEF TxDone
  <2>2. QED
    BY <1>9, <2>1
<1>12. CASE Output \/ Fatal \/ \E a \in APs : Beacon(a) \/ Associate(a)
  <2>1. Idle /\ wpc' = wpc /\ (hw' = hw \/ hw' = "off") /\ mgtq' = mgtq
    BY <1>1, <1>12, Zenon DEF Output, Fatal, Beacon, Associate
  <2>2. QED
    BY <1>9, <2>1
<1>13. CASE WorkerForce
  <2>1. todo' \in {<<"reset", "stop">>, <<"start", "reset", "stop">>}
    BY <1>13, LeaveTodo DEF WorkerForce
  <2>2. QED
    BY <2>1, SMTT(30) DEF UpInv
<1>14. CASE WorkerDone \/ WorkerFailed \/ WorkerUp \/ WorkerRestart \/ WorkerSecondImage \/ WorkerRestarted
            \/ \E ns \in {"AUTH", "ASSOC", "RUN"} : WorkerCommand(ns)
  <2>1. wpc' # "UP"
    BY <1>14 DEF WorkerDone, WorkerFailed, WorkerUp, WorkerRestart, WorkerSecondImage,
       WorkerRestarted, WorkerCommand
  <2>2. QED
    BY <1>2, <2>1, SMTT(30)
<1>15. CASE WorkerScan \/ WorkerInit
  <2>1. wpc' = wpc /\ wpc = "idle"
    BY <1>15, Zenon DEF WorkerScan, WorkerInit, WorkerFree
  <2>2. QED
    BY <1>2, <2>1
<1>16. CASE UNCHANGED vars
  <2>1. wpc' = wpc /\ hw' = hw /\ todo' = todo /\ mgtq' = mgtq
    BY <1>1, <1>16, Zenon DEF vars
  <2>2. QED
    BY <1>3, <2>1
<1>17. QED
  BY <1>5, <1>6, <1>7, <1>8, <1>10, <1>11, <1>12, <1>13, <1>14, <1>15, <1>16, Zenon
     DEF Next, Holder, Worker

\* Backpressure and the queue: what is left waiting is waited for.
LEMMA FlagsNext ==
  ASSUME todo \in Todos, FlagsInv, [Next]_vars
  PROVE  FlagsInv'
<1>1. /\ if_flags \subseteq {"RUNNING", "OACTIVE"}
      /\ "OACTIVE" \in if_flags /\ wedged = "no" => qfullmsk # {}
      /\ Idle /\ mgtq # <<>> => if_flags # {"RUNNING"}
  BY DEF FlagsInv, NoStall
<1>2. UpInv'
  BY UpNext DEF FlagsInv
<1> DEFINE Flags == if_flags \subseteq {"RUNNING", "OACTIVE"} /\ NoStall
<1>3. SUFFICES Flags'
  BY <1>2 DEF FlagsInv
<1>4. /\ UNCHANGED ringVars => UNCHANGED qfullmsk
      /\ UNCHANGED history => UNCHANGED wedged
  BY DEF ringVars, history
<1>5. ASSUME if_flags' = if_flags, qfullmsk' = qfullmsk, wedged' = wedged,
             (mgtq' = mgtq /\ todo' = todo) \/ todo' # <<>>
      PROVE  Flags'
  BY <1>1, <1>5 DEF NoStall, Idle
<1>6. ASSUME if_flags' = {} PROVE Flags'
  BY <1>6 DEF NoStall
<1>7. ASSUME ResetRings, Wedge, if_flags' = if_flags, (mgtq' = mgtq /\ todo' = todo) \/ todo' # <<>>
      PROVE  Flags'
  BY <1>1, <1>7 DEF NoStall, Idle, Wedge
<1>8. CASE StartEnd
  <2>1. mgtq' = mgtq /\ qfullmsk' = qfullmsk /\ wedged' = wedged
    BY <1>4, <1>8, Zenon DEF StartEnd
  <2>2. \/ if_flags # {"RUNNING"} /\ if_flags' = if_flags
        \/ if_flags = {"RUNNING"} /\ qfullmsk # {} /\ if_flags' = if_flags \cup {"OACTIVE"}
        \/ if_flags = {"RUNNING"} /\ mgtq = <<>> /\ if_flags' = if_flags
    BY <1>8 DEF StartEnd
  <2>3. QED
    BY <1>1, <2>1, <2>2, Zenon DEF NoStall
<1>9. CASE StartLoop
  <2>1. if_flags' = {"RUNNING"} /\ todo' = todo /\ todo # <<>>
    BY <1>9, Zenon DEF StartLoop, Idle
  <2>2. QED
    BY <2>1 DEF NoStall, Idle
<1>10. CASE ResetBss
  <2>1. if_flags' = if_flags /\ mgtq' = <<>> /\ qfullmsk' = qfullmsk /\ wedged' = wedged
    BY <1>4, <1>10, Zenon DEF ResetBss
  <2>2. QED
    BY <1>1, <2>1 DEF NoStall
<1>11. CASE StopDevice \/ Fatal
  BY <1>6, <1>11 DEF StopDevice, Fatal
<1>12. ASSUME NEW n \in Nodes, SendMgmt(n) PROVE Flags'
  <2>1. if_flags' = if_flags /\ qfullmsk' = qfullmsk /\ wedged' = wedged /\ todo' = <<"start">>
    BY <1>4, <1>12, Zenon DEF SendMgmt
  <2>2. QED
    BY <1>5, <2>1
<1>13. CASE Output
  <2>1. if_flags' = if_flags /\ qfullmsk' = qfullmsk /\ wedged' = wedged /\ todo' = <<"start">>
    BY <1>4, <1>13, Zenon DEF Output
  <2>2. QED
    BY <1>5, <2>1
<1>14. ASSUME NEW q \in Rings, TxDone(q) PROVE Flags'
  <2>1. Idle /\ mgtq' = mgtq /\ wedged' = wedged
    BY <1>4, <1>14, Zenon DEF TxDone
  <2>2. \/ if_flags' = if_flags \ {"OACTIVE"} /\ todo' = <<"start">>
        \/ /\ if_flags' = if_flags /\ todo' = todo
           /\ qfullmsk' = {} /\ "OACTIVE" \in if_flags => qfullmsk = {}
    <3>1. CASE queued'[q] < LoMark /\ qfullmsk' = {} /\ "OACTIVE" \in if_flags
      BY <1>14, <3>1, Zenon DEF TxDone
    <3>2. CASE ~(queued'[q] < LoMark /\ qfullmsk' = {} /\ "OACTIVE" \in if_flags)
      <4>1. if_flags' = if_flags /\ todo' = todo
        BY <1>14, <3>2, Zenon DEF TxDone
      <4>2. ~(queued'[q] < LoMark) => qfullmsk' = qfullmsk
        BY <1>14, Zenon DEF TxDone
      <4>3. QED
        BY <3>2, <4>1, <4>2
    <3>3. QED
      BY <3>1, <3>2
  <2>3. CASE if_flags' = if_flags \ {"OACTIVE"} /\ todo' = <<"start">>
    <3>1. <<"start">> # <<>>
      OBVIOUS
    <3>2. QED
      BY <1>1, <2>3, <3>1 DEF NoStall, Idle
  <2>4. CASE /\ if_flags' = if_flags /\ todo' = todo
             /\ qfullmsk' = {} /\ "OACTIVE" \in if_flags => qfullmsk = {}
    BY <1>1, <2>1, <2>4 DEF NoStall, Idle
  <2>5. QED
    BY <2>2, <2>3, <2>4
<1>15. CASE WorkerDone
  <2>1. if_flags' = if_flags /\ qfullmsk' = qfullmsk /\ wedged' = wedged
    BY <1>4, <1>15, Zenon DEF WorkerDone
  <2>2. (mgtq' = mgtq /\ todo' = todo) \/ todo' = <<"start">>
    BY <1>15, Zenon DEF WorkerDone
  <2>3. QED
    BY <1>5, <2>1, <2>2
<1>16. ASSUME LeaveBss(<<>>) \/ LeaveBss(<<"stop">>) PROVE todo' # <<>>
  BY <1>16, LeaveTodo
<1>17. CASE WorkerForce \/ WorkerInit
  <2>1. if_flags' = if_flags /\ qfullmsk' = qfullmsk /\ wedged' = wedged
    BY <1>4, <1>17, Zenon DEF WorkerForce, WorkerInit
  <2>2. todo' # <<>>
    BY <1>16, <1>17, Zenon DEF WorkerForce, WorkerInit
  <2>3. QED
    BY <1>5, <2>1, <2>2
<1>18. CASE WorkerRestarted
  <2>1. if_flags' = if_flags
    BY <1>18, Zenon DEF WorkerRestarted
  <2>2. todo' # <<>>
    BY <1>16, <1>18, Zenon DEF WorkerRestarted
  <2>3. (ResetRings /\ Wedge) \/ (qfullmsk' = qfullmsk /\ wedged' = wedged)
    BY <1>4, <1>18, Zenon DEF WorkerRestarted
  <2>4. QED
    BY <1>5, <1>7, <2>1, <2>2, <2>3, Zenon
<1>19. CASE WorkerUp
  <2>1. Idle /\ wpc = "UP" /\ mgtq' = mgtq /\ qfullmsk' = qfullmsk /\ wedged' = wedged /\ todo' = todo
    BY <1>4, <1>19, Zenon DEF WorkerUp
  <2>2. mgtq = <<>>
    <3>1. /\ <<>> # <<"start", "reset", "stop">> /\ <<>> # <<"reset", "stop">>
      OBVIOUS
    <3>2. QED
      BY <2>1, <3>1 DEF FlagsInv, UpInv, Idle
  <2>3. if_flags' = {"RUNNING"} \/ if_flags' = if_flags
    BY <1>19, Zenon DEF WorkerUp
  <2>4. QED
    BY <1>1, <2>1, <2>2, <2>3, Zenon DEF NoStall
<1>20. CASE WorkerRestart \/ WorkerSecondImage
  <2>1. ResetRings /\ Wedge /\ if_flags' = if_flags /\ mgtq' = mgtq /\ todo' = todo
    BY <1>20, Zenon DEF WorkerRestart, WorkerSecondImage
  <2>2. QED
    BY <1>7, <2>1, Zenon
<1>21. CASE \/ WorkerFailed \/ WorkerScan \/ UNCHANGED vars
            \/ \E ns \in {"AUTH", "ASSOC", "RUN"} : WorkerCommand(ns)
            \/ \E a \in APs : Beacon(a) \/ Associate(a)
  <2>1. if_flags' = if_flags /\ qfullmsk' = qfullmsk /\ wedged' = wedged /\ mgtq' = mgtq /\ todo' = todo
    BY <1>4, <1>21, Zenon DEF WorkerFailed, WorkerScan, vars, WorkerCommand, Beacon, Associate
  <2>2. QED
    BY <1>5, <2>1, Zenon
<1> HIDE DEF Flags
<1>22. QED
  BY <1>8, <1>9, <1>10, <1>11, <1>12, <1>13, <1>14, <1>15, <1>17, <1>18, <1>19, <1>20, <1>21, Zenon
     DEF Next, Holder, Worker

\* The initial state.
LEMMA RefInit == Init => RefInv
<1> SUFFICES ASSUME Init PROVE RefInv
  OBVIOUS
<1>1. /\ todo = <<>> /\ bss = 1 /\ win = None /\ wpc = "idle" /\ mgtq = <<>>
      /\ if_flags = {"RUNNING"} /\ 1 \in Nodes
      /\ node[1].tab = TRUE
  BY RingAssumption DEF Init, Nodes
<1>2. TableInv
  BY <1>1 DEF TableInv, Todos
<1>3. FlagsInv
  BY <1>1 DEF FlagsInv, UpInv, NoStall
<1>4. QED
  BY <1>2, <1>3, RingInit, HeapInit, SMTT(30) DEF RefInv

\* The invariant is inductive.
LEMMA RefNext == RefInv /\ [Next]_vars => RefInv'
<1> SUFFICES ASSUME RefInv, [Next]_vars PROVE RefInv'
  OBVIOUS
<1>1. RefTypes /\ RingInv /\ TableInv /\ FlagsInv /\ todo \in Todos /\ PointersInv
  BY DEF RefInv, RefTypes, TableInv, RingInv
<1>2. RingInv'
  BY <1>1, RingsNext, PointersNext DEF RingInv
<1>3. HeapInv'
  BY <1>1, HeapNext
<1>4. TableInv'
  BY <1>1, TableNext
<1>5. FlagsInv'
  BY <1>1, FlagsNext
<1>6. QED
  BY <1>2, <1>3, <1>4, <1>5 DEF RefInv

\* A queued frame, or one in a ring, is counted.
LEMMA FramesCounted ==
  ASSUME RefTypes, NEW n \in Nodes
  PROVE  /\ (\E i \in 1 .. Len(mgtq) : mgtq[i] = n) => Carried(mgtq, n) > 0
         /\ InFlight(n) # {} => Flying(ring, n) > 0
<1>1. IsFiniteSet(Places(mgtq, n)) /\ IsFiniteSet(Occupied(ring, n))
  BY PlacesFinite, FlyingType, SMTT(30) DEF RefTypes, RingInv, PointersInv
<1>2. /\ Carried(mgtq, n) = Cardinality(Places(mgtq, n))
      /\ Flying(ring, n) = Cardinality(Occupied(ring, n)) /\ InFlight(n) = Occupied(ring, n)
  BY DEF Carried, Places, Flying, Occupied, InFlight
<1>3. (\E i \in 1 .. Len(mgtq) : mgtq[i] = n) => Places(mgtq, n) # {}
  BY DEF Places
<1>4. \A S : IsFiniteSet(S) /\ S # {} => Cardinality(S) > 0
  BY FS_CardinalityType, FS_EmptySet
<1>5. QED
  BY <1>1, <1>2, <1>3, <1>4

\* The invariant gives the two properties of the counts.
LEMMA RefInvGives == RefInv => RefsExact /\ PointersLive /\ NoStall
<1> SUFFICES ASSUME RefInv PROVE RefsExact /\ PointersLive /\ NoStall
  OBVIOUS
<1>1. RefTypes /\ TableInv /\ NoStall /\ bss \in Nodes
  BY DEF RefInv, RefTypes, FlagsInv, RingInv, PointersInv
<1>2. RefsExact
  <2>1. ASSUME NEW n \in Nodes PROVE node[n].ref = Holders(n) + lost[n]
    <3>1. Holders(n) = One(node[n].tab) + One(bss = n) + Carried(mgtq, n) + Flying(ring, n)
      BY SMTT(30) DEF Holders, One, Flying, InFlight
    <3>2. node[n].ref = One(node[n].tab) + One(bss = n) + Carried(mgtq, n) + Flying(ring, n) + lost[n]
      BY <1>1, Shares
    <3>3. QED
      BY <3>1, <3>2, SMTT(30)
  <2>2. QED
    BY <2>1, SMTT(30) DEF RefsExact
<1>3. PointersLive
  <2>1. ASSUME NEW n \in Nodes,
               \/ bss = n \/ win = n \/ (\E i \in 1 .. Len(mgtq) : mgtq[i] = n)
               \/ InFlight(n) # {}
        PROVE  node[n].ref > 0
    <3>1. /\ One(node[n].tab) \in Nat /\ One(bss = n) \in Nat
          /\ Carried(mgtq, n) \in Nat /\ Flying(ring, n) \in Nat /\ lost[n] \in Nat
          /\ node[n].ref = One(node[n].tab) + One(bss = n) + Carried(mgtq, n)
                             + Flying(ring, n) + lost[n]
      BY <1>1, Shares
    <3>2. bss = n => One(bss = n) = 1
      BY DEF One
    <3>3. win = n => One(node[n].tab) = 1
      BY <1>1, SMTT(30) DEF TableInv, One, Nodes, None
    <3>4. \/ One(bss = n) > 0 \/ One(node[n].tab) > 0 \/ Carried(mgtq, n) > 0
          \/ Flying(ring, n) > 0
      BY <1>1, <2>1, <3>2, <3>3, FramesCounted
    <3>5. QED
      BY <3>1, <3>4, SMTT(30)
  <2>2. node[bss].tab
    BY <1>1 DEF TableInv
  <2>3. QED
    BY <2>1, <2>2, Zenon DEF PointersLive
<1>4. QED
  BY <1>1, <1>2, <1>3

\* ni_refcnt is exact for every number of nodes, frames, rings and resets: it
\* counts the table, ic_bss, each queued frame and each frame with the
\* firmware, plus the references that a reset of the rings has dropped.
THEOREM RefsAreExact == Spec => []RefsExact
  BY RefInit, RefNext, RefInvGives, PTL DEF Spec

\* No pointer outlives its node, the bare one of the sleeping state worker
\* included.
THEOREM PointersStayLive == Spec => []PointersLive
  BY RefInit, RefNext, RefInvGives, PTL DEF Spec

\* A set IFF_OACTIVE has a full ring behind it, and no management frame waits
\* while the interface could send it.
THEOREM NothingStalls == Spec => []NoStall
  BY RefInit, RefNext, RefInvGives, PTL DEF Spec
=============================================================================
