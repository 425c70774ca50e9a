----------------------------- MODULE OsalProofs -----------------------------
(***************************************************************************)
(* Proofs about the two synchronisation services of the OS ports.          *)
(*                                                                         *)
(* OsalCv: a broadcast of the FreeRTOS port's condition variable leaves no *)
(* waiter behind, for any number of waiters, timed or not, and any number  *)
(* of broadcasts.                                                          *)
(*                                                                         *)
(* OsalSleep: tsleep gives the serializer back as deep as it was, and      *)
(* wakeup and tsleep do not miss each other, for any number of threads and *)
(* idents, any table of remembered wakeups and either port.                *)
(***************************************************************************)
EXTENDS OsalCv, OsalSleep, FiniteSetTheorems, WellFoundedInduction, TLAPS

-----------------------------------------------------------------------------
(* OsalCv *)

\* The threads counted in *hc_cond_waiters(cv), and those between the count and
\* the wait.
Counted == {w \in Waiters : pc[w] \in {"exit", "take", "deregister"}}

\* The types, the counters apart.
Types ==
  /\ m \in Threads \cup {Free} /\ pred \in BOOLEAN /\ rounds \in 0 .. MaxRounds
  /\ pc \in [Threads -> {"idle", "enter", "test", "exit", "take", "deregister",
                         "change", "count", "give", "over"}]

\* Who holds the mutex, by where they are.
Mutex ==
  /\ pc[Setter] \in {"change", "count", "give"} <=> m = Setter
  /\ \A w \in Waiters : pc[w] \in {"test", "exit"} <=> m = w

\* The counter counts, and tokens are given only during a broadcast.
Counts ==
  /\ waiters = Cardinality(Counted)
  /\ sem \in Nat /\ n \in Nat
  /\ pc[Setter] # "give" => n = 0

\* No thread is on its way into the wait while the predicate is true: it
\* tested the predicate under the mutex.
NoneEntering == pred => \A w \in Waiters : pc[w] # "exit"

\* The predicate becomes true before the broadcast.
Broadcasting == pc[Setter] \in {"count", "give"} => pred

\* Each broadcast gives at most one token per thread that can wait.
Bounded ==
  /\ n <= Cardinality(Waiters)
  /\ sem + (IF pc[Setter] = "count" THEN Cardinality(Waiters) ELSE n)
       <= rounds * Cardinality(Waiters)

Inv == Bounded /\ Types /\ Mutex /\ Counts /\ NoneEntering /\ Broadcasting /\ TokensSuffice

\* The sets that are counted are finite, and each is part of the next.
LEMMA Finite ==
  /\ IsFiniteSet(Waiters) /\ Cardinality(Waiters) \in Nat
  /\ IsFiniteSet(Blocked) /\ Cardinality(Blocked) \in Nat
  /\ IsFiniteSet(Counted) /\ Cardinality(Counted) \in Nat
  /\ Cardinality(Blocked) <= Cardinality(Counted)
  /\ Cardinality(Counted) <= Cardinality(Waiters)
<1>1. IsFiniteSet(Waiters) /\ Cardinality(Waiters) \in Nat
  BY ConstantsAssumption, FS_CardinalityType
<1>2. Counted \subseteq Waiters /\ Blocked \subseteq Counted
  BY DEF Counted, Blocked
<1>3. IsFiniteSet(Counted) /\ Cardinality(Counted) <= Cardinality(Waiters)
  BY <1>1, <1>2, FS_Subset
<1>4. IsFiniteSet(Blocked) /\ Cardinality(Blocked) <= Cardinality(Counted)
  BY <1>2, <1>3, FS_Subset
<1>5. QED
  BY <1>1, <1>3, <1>4, FS_CardinalityType

-----------------------------------------------------------------------------
(* Counting *)

\* The waiters at certain places.
At(ls) == {w \in Waiters : pc[w] \in ls}

\* That set changes by at most the thread that moves.
LEMMA CountMoves ==
  ASSUME Types, NEW t \in Threads, NEW l, Goto(t, l), NEW ls
  PROVE  LET a == Cardinality(At(ls))
             b == Cardinality({w \in Waiters : pc'[w] \in ls})
         IN  /\ a \in Nat /\ b \in Nat
             /\ t \notin Waiters \/ (pc[t] \in ls <=> l \in ls) => b = a
             /\ t \in Waiters /\ pc[t] \notin ls /\ l \in ls => b = a + 1
             /\ t \in Waiters /\ pc[t] \in ls /\ l \notin ls => b = a - 1
<1> DEFINE A == At(ls)
           B == {w \in Waiters : pc'[w] \in ls}
<1>1. /\ pc'[t] = l
      /\ \A w \in Waiters : w # t => pc'[w] = pc[w]
  BY DEF Types, Goto, Threads
<1>2. /\ IsFiniteSet(A) /\ Cardinality(A) \in Nat
      /\ IsFiniteSet(B) /\ Cardinality(B) \in Nat
  <2>1. A \subseteq Waiters /\ B \subseteq Waiters
    BY DEF At
  <2>2. QED
    BY <2>1, Finite, FS_Subset, FS_CardinalityType
<1>3. CASE t \notin Waiters \/ (pc[t] \in ls <=> l \in ls)
  <2>1. A = B
    BY <1>1, <1>3 DEF At
  <2>2. QED
    BY <1>2, <1>3, <2>1
<1>4. CASE t \in Waiters /\ pc[t] \notin ls /\ l \in ls
  <2>1. B = A \cup {t} /\ t \notin A
    BY <1>1, <1>4 DEF At
  <2>2. Cardinality(A \cup {t}) = Cardinality(A) + 1
    BY <1>2, <2>1, FS_AddElement, Zenon
  <2>3. QED
    BY <1>2, <1>4, <2>1, <2>2
<1>5. CASE t \in Waiters /\ pc[t] \in ls /\ l \notin ls
  <2>1. B = A \ {t} /\ t \in A
    BY <1>1, <1>5 DEF At
  <2>2. Cardinality(A \ {t}) = Cardinality(A) - 1
    BY <1>2, <2>1, FS_RemoveElement, Zenon
  <2>3. QED
    BY <1>2, <1>5, <2>1, <2>2
<1>6. QED
  BY <1>3, <1>4, <1>5

-----------------------------------------------------------------------------
(* The invariant is kept *)

\* The types.
LEMMA TypesStep == Types /\ [Next]_vars => Types'
<1> SUFFICES ASSUME Types, [Next]_vars PROVE Types'
  OBVIOUS
<1>1. ASSUME NEW w \in Waiters, Begin(w) \/ WaiterSteps(w) PROVE Types'
  <2>1. m' \in {m, w, Free} /\ UNCHANGED <<pred, rounds>>
    BY <1>1 DEF Begin, WaiterSteps, Enter, Leave, Register, ExitM, TakeToken, Timeout,
                Deregister
  <2>2. PICK l \in {"idle", "enter", "test", "exit", "take", "deregister"} : Goto(w, l)
    BY <1>1 DEF Begin, WaiterSteps, Enter, Leave, Register, ExitM, TakeToken, Timeout,
                Deregister
  <2>3. m' \in Threads \cup {Free} /\ pred' \in BOOLEAN /\ rounds' \in 0 .. MaxRounds
    BY <2>1 DEF Types, Threads
  <2>4. pc' \in [Threads -> {"idle", "enter", "test", "exit", "take", "deregister",
                            "change", "count", "give", "over"}]
    BY <2>2, Zenon DEF Types, Goto
  <2>5. QED
    BY <2>3, <2>4 DEF Types
<1>2. CASE SetterSteps
  <2>1. m' \in Threads \cup {Free} /\ rounds' \in 0 .. MaxRounds
    BY <1>2, ConstantsAssumption
    DEF SetterSteps, SetterEnter, ClearPred, SetPred, Count, Give, Given, Types, Threads
  <2>2. pred' \in BOOLEAN
    BY <1>2, Zenon
    DEF SetterSteps, SetterEnter, ClearPred, SetPred, Count, Give, Given, Types
  <2>3. \/ UNCHANGED pc
        \/ \E l \in {"idle", "change", "count", "give", "over"} : Goto(Setter, l)
    BY <1>2 DEF SetterSteps, SetterEnter, ClearPred, SetPred, Count, Give, Given
  <2>4. pc' \in [Threads -> {"idle", "enter", "test", "exit", "take", "deregister",
                            "change", "count", "give", "over"}]
    BY <2>3 DEF Types, Goto
  <2>5. QED
    BY <2>1, <2>2, <2>4 DEF Types
<1>3. CASE UNCHANGED vars
  BY <1>3 DEF vars, Types
<1>4. QED
  BY <1>1, <1>2, <1>3 DEF Next

\* The mutex is held by the one thread that is inside.
LEMMA MutexStep == Types /\ Mutex /\ [Next]_vars => Mutex'
<1> SUFFICES ASSUME Types, Mutex, [Next]_vars PROVE Mutex'
  OBVIOUS
<1>0. Setter # Free /\ Setter \notin Waiters /\ Free \notin Waiters
  BY ConstantsAssumption DEF Free, Setter
<1>1. ASSUME NEW w \in Waiters, Begin(w) \/ WaiterSteps(w) PROVE Mutex'
  <2>1. PICK l : pc' = [pc EXCEPT ![w] = l]
    BY <1>1 DEF Begin, WaiterSteps, Enter, Leave, Register, ExitM, TakeToken, Timeout,
                Deregister, Goto
  <2>2. /\ pc'[Setter] = pc[Setter] /\ pc'[w] = l
        /\ \A v \in Waiters : v # w => pc'[v] = pc[v]
    BY <1>0, <2>1 DEF Types, Threads
  <2>3. CASE UNCHANGED m
    <3>1. l \in {"test", "exit"} <=> pc[w] \in {"test", "exit"}
      BY <1>0, <1>1, <2>1, <2>2, <2>3
      DEF Begin, WaiterSteps, Enter, Leave, Register, ExitM, TakeToken, Timeout, Deregister,
          Goto, Mutex
    <3>2. QED
      BY <2>2, <2>3, <3>1 DEF Mutex
  <2>4. CASE m = Free /\ m' = w /\ l = "test"
    BY <1>0, <2>2, <2>4 DEF Mutex
  <2>5. CASE pc[w] \in {"test", "exit"} /\ m' = Free /\ l \notin {"test", "exit"}
    BY <1>0, <2>2, <2>5 DEF Mutex
  <2>6. QED
    BY <1>1, <2>2, <2>3, <2>4, <2>5
    DEF Begin, WaiterSteps, Enter, Leave, Register, ExitM, TakeToken, Timeout, Deregister,
        Goto, Types, Threads
<1>2. CASE SetterSteps
  BY <1>0, <1>2
  DEF SetterSteps, SetterEnter, ClearPred, SetPred, Count, Give, Given, Goto, Mutex, Types,
      Threads
<1>3. CASE UNCHANGED vars
  BY <1>3 DEF vars, Mutex
<1>4. QED
  BY <1>1, <1>2, <1>3 DEF Next

\* A waiter's step.
LEMMA WaiterKeeps ==
  ASSUME Inv, NEW w \in Waiters, Begin(w) \/ WaiterSteps(w)
  PROVE  Bounded' /\ Counts' /\ NoneEntering' /\ Broadcasting' /\ TokensSuffice'
<1>0. /\ Setter # Free /\ Setter \notin Waiters /\ Free \notin Waiters
      /\ w \in Threads /\ w # Setter /\ Setter \in Threads
  BY ConstantsAssumption DEF Free, Setter, Threads
<1>1. PICK l : Goto(w, l)
  BY SMTT(30) DEF Begin, WaiterSteps, Enter, Leave, Register, ExitM, TakeToken, Timeout, Deregister
<1>2. /\ pc'[Setter] = pc[Setter] /\ pc'[w] = l
      /\ \A v \in Waiters : v # w => pc'[v] = pc[v]
      /\ UNCHANGED <<pred, n, rounds>>
  BY <1>0, <1>1, SMTT(30)
  DEF Goto, Inv, Types, Threads, Begin, WaiterSteps, Enter, Leave, Register, ExitM,
      TakeToken, Timeout, Deregister
<1> DEFINE c == Cardinality(Counted)
           b == Cardinality(Blocked)
<1>3. /\ c \in Nat /\ c' \in Nat
      /\ (pc[w] \in {"exit", "take", "deregister"} <=> l \in {"exit", "take", "deregister"})
           => c' = c
      /\ pc[w] \notin {"exit", "take", "deregister"} /\ l \in {"exit", "take", "deregister"}
           => c' = c + 1
      /\ pc[w] \in {"exit", "take", "deregister"} /\ l \notin {"exit", "take", "deregister"}
           => c' = c - 1
  <2> DEFINE ls == {"exit", "take", "deregister"}
  <2>1. Counted = At(ls) /\ Counted' = {v \in Waiters : pc'[v] \in ls}
    BY SMTT(30) DEF Counted, At
  <2>2. QED
    BY <1>0, <1>1, <2>1, CountMoves DEF Inv
<1>4. /\ b \in Nat /\ b' \in Nat
      /\ (pc[w] = "take" <=> l = "take") => b' = b
      /\ pc[w] # "take" /\ l = "take" => b' = b + 1
      /\ pc[w] = "take" /\ l # "take" => b' = b - 1
  <2>1. /\ Blocked = At({"take"})
        /\ Blocked' = {v \in Waiters : pc'[v] \in {"take"}}
    BY SMTT(30) DEF Blocked, At
  <2>2. QED
    BY <1>0, <1>1, <2>1, CountMoves DEF Inv
<1>5. Counts'
  <2>1. waiters = c /\ sem \in Nat /\ n \in Nat /\ (pc[Setter] # "give" => n = 0)
    BY DEF Inv, Counts
  <2>2. waiters' = c' /\ sem' \in Nat
    <3>1. CASE Register(w)
      BY <1>2, <1>3, <2>1, <3>1 DEF Register, Goto, Inv, Types, Threads
    <3>2. CASE Deregister(w)
      BY <1>2, <1>3, <2>1, <3>2 DEF Deregister, Goto, Inv, Types, Threads
    <3>3. CASE TakeToken(w)
      BY <1>2, <1>3, <2>1, <3>3, SMTT(30) DEF TakeToken, Goto, Inv, Types, Threads
    <3>4. CASE Begin(w) \/ Enter(w) \/ Leave(w) \/ ExitM(w) \/ Timeout(w)
      BY <1>2, <1>3, <2>1, <3>4, SMTT(30)
      DEF Begin, Enter, Leave, ExitM, Timeout, Goto, Inv, Types, Threads
    <3>5. QED
      BY <3>1, <3>2, <3>3, <3>4 DEF WaiterSteps
  <2>3. QED
    BY <1>2, <2>1, <2>2 DEF Counts
<1>6. NoneEntering' /\ Broadcasting'
  BY <1>1, <1>2
  DEF Inv, NoneEntering, Broadcasting, Begin, WaiterSteps, Enter, Leave, Register, ExitM,
      TakeToken, Timeout, Deregister, Goto
<1>7. TokensSuffice'
  <2>1. SUFFICES ASSUME pred, pc[Setter] # "count" PROVE b' <= sem' + n
    BY <1>2 DEF TokensSuffice
  <2>2. b <= sem + n /\ pc[w] # "exit" /\ sem \in Nat /\ n \in Nat
    BY <2>1 DEF Inv, TokensSuffice, NoneEntering, Counts
  <2>3. CASE TakeToken(w)
    <3>1. pc[w] = "take" /\ l = "deregister" /\ sem' = sem - 1
      BY <1>2, <2>3 DEF TakeToken, Goto, Inv, Types, Threads
    <3>2. QED
      BY <1>4, <2>2, <3>1
  <2>4. CASE ~TakeToken(w)
    <3>1. l # "take" /\ sem' = sem
      BY <1>2, <2>2, <2>4, SMTT(30)
      DEF Begin, WaiterSteps, Enter, Leave, Register, ExitM, Timeout, Deregister, Goto, Inv,
          Types, Threads
    <3>2. QED
      BY <1>4, <2>2, <3>1, SMTT(30)
  <2>5. QED
    BY <2>3, <2>4
<1>8. Bounded'
  <2>1. sem' \in Nat /\ sem \in Nat /\ sem' <= sem
    BY DEF Inv, Counts, Begin, WaiterSteps, Enter, Leave, Register, ExitM, TakeToken,
           Timeout, Deregister
  <2> DEFINE p == rounds * Cardinality(Waiters)
  <2>2. p \in Nat /\ p' = p
    BY <1>2, Finite DEF Inv, Types
  <2>3. QED
    BY <1>2, <2>1, <2>2, Finite, SMTT(30) DEF Inv, Bounded, Counts
<1>9. QED
  BY <1>5, <1>6, <1>7, <1>8


\* A step of the thread that changes the predicate.
LEMMA SetterKeeps ==
  ASSUME Inv, SetterSteps
  PROVE  Bounded' /\ Counts' /\ NoneEntering' /\ Broadcasting' /\ TokensSuffice'
<1>0. /\ Setter # Free /\ Setter \notin Waiters /\ Free \notin Waiters
      /\ Setter \in Threads /\ Setter \in DOMAIN pc
  BY ConstantsAssumption DEF Free, Setter, Threads, Inv, Types
<1>1. /\ \A v \in Waiters : pc'[v] = pc[v]
      /\ UNCHANGED <<waiters, Counted, Blocked>>
  <2>1. \A v \in Waiters : pc'[v] = pc[v]
    BY <1>0
    DEF SetterSteps, SetterEnter, ClearPred, SetPred, Count, Give, Given, Goto, Inv, Types,
        Threads
  <2>2. Counted' = Counted /\ Blocked' = Blocked
    BY <2>1 DEF Counted, Blocked
  <2>3. waiters' = waiters
    BY DEF SetterSteps, SetterEnter, ClearPred, SetPred, Count, Give, Given
  <2>4. QED
    BY <2>1, <2>2, <2>3
<1>2. /\ waiters = Cardinality(Counted) /\ sem \in Nat /\ n \in Nat
      /\ (pc[Setter] # "give" => n = 0) /\ rounds \in Nat
      /\ rounds * Cardinality(Waiters) \in Nat
  BY Finite, ConstantsAssumption DEF Inv, Counts, Types
<1>3. Counts'
  <2>1. waiters' = Cardinality(Counted') /\ Cardinality(Counted) \in Nat
    BY <1>1, <1>2, Finite
  <2>2. sem' \in Nat /\ n' \in Nat /\ (pc'[Setter] # "give" => n' = 0)
    BY <1>0, <1>2, <2>1
    DEF SetterSteps, SetterEnter, ClearPred, SetPred, Count, Give, Given, Goto
  <2>3. QED
    BY <2>1, <2>2 DEF Counts
<1>4. NoneEntering' /\ Broadcasting'
  <2>1. CASE SetterEnter
    BY <1>0, <1>1, <2>1 DEF SetterEnter, Goto, NoneEntering, Broadcasting, Inv
  <2>2. CASE ClearPred
    BY <1>0, <1>1, <2>2 DEF ClearPred, Goto, NoneEntering, Broadcasting, Inv
  <2>3. CASE SetPred
    <3>1. m = Setter
      BY <2>3 DEF SetPred, Inv, Mutex
    <3>2. \A v \in Waiters : pc[v] # "exit"
      BY <1>0, <3>1 DEF Inv, Mutex
    <3>3. QED
      BY <1>0, <1>1, <2>3, <3>2 DEF SetPred, NoneEntering, Broadcasting
  <2>4. CASE Count \/ Give \/ Given
    BY <1>0, <1>1, <2>4 DEF Count, Give, Given, Goto, NoneEntering, Broadcasting, Inv
  <2>5. QED
    BY <2>1, <2>2, <2>3, <2>4 DEF SetterSteps
<1>5. TokensSuffice'
  <2>1. Cardinality(Blocked') = Cardinality(Blocked) /\ Cardinality(Blocked) \in Nat
        /\ Cardinality(Blocked) <= waiters /\ waiters \in Nat
    BY <1>1, <1>2, Finite
  <2>2. CASE SetterEnter
    BY <1>0, <2>1, <2>2 DEF SetterEnter, Goto, TokensSuffice, Inv
  <2>3. CASE ClearPred \/ SetPred
    BY <1>0, <2>3 DEF ClearPred, SetPred, Goto, TokensSuffice
  <2>4. CASE Count
    BY <1>0, <1>2, <2>1, <2>4 DEF Count, Goto, TokensSuffice
  <2>5. CASE Give
    BY <1>0, <1>2, <2>1, <2>5 DEF Give, TokensSuffice, Inv
  <2>6. CASE Given
    BY <1>0, <2>1, <2>6 DEF Given, Goto, TokensSuffice, Inv
  <2>7. QED
    BY <2>2, <2>3, <2>4, <2>5, <2>6 DEF SetterSteps
<1>6. Bounded'
  <2> DEFINE k == Cardinality(Waiters)
  <2>1. k \in Nat /\ waiters <= k /\ waiters \in Nat
    BY <1>2, Finite
  <2>2. CASE SetPred
    <3>1. rounds' = rounds + 1 /\ pc'[Setter] = "count" /\ n = 0 /\ sem' = sem
      BY <1>0, <1>2, <2>2 DEF SetPred, Goto
    <3>2. (rounds + 1) * k = rounds * k + k
      BY <1>2, <2>1
    <3>3. sem <= rounds * k
      BY <1>2, <2>2, <3>1 DEF SetPred, Bounded, Inv
    <3>4. sem + k <= (rounds + 1) * k
      <4> HIDE DEF k
      <4>1. rounds * k \in Nat
        BY <1>2, <2>1
      <4>2. QED
        BY <1>2, <2>1, <3>2, <3>3, <4>1
    <3>5. n' = 0
      BY <2>2, <3>1 DEF SetPred
    <3>6. QED
      BY <2>1, <3>1, <3>4, <3>5 DEF Bounded
  <2>3. CASE Count
    <3>1. /\ rounds' = rounds /\ pc[Setter] = "count" /\ pc'[Setter] = "give"
          /\ n' = waiters /\ sem' = sem
      BY <1>0, <2>3 DEF Count, Goto
    <3>2. sem + k <= rounds * k
      BY <3>1 DEF Bounded, Inv
    <3>3. sem + waiters <= rounds * k
      BY <1>2, <2>1, <3>2
    <3>4. QED
      BY <2>1, <3>1, <3>3 DEF Bounded
  <2>4. CASE Give
    <3>1. /\ rounds' = rounds /\ pc'[Setter] = "give" /\ pc[Setter] = "give"
          /\ sem' = sem + 1 /\ n' = n - 1
      BY <2>4 DEF Give
    <3>2. n <= k /\ sem + n <= rounds * k
      BY <3>1 DEF Bounded, Inv
    <3>3. n' <= k /\ sem' + n' <= rounds * k
      BY <1>2, <2>1, <3>1, <3>2
    <3>4. QED
      BY <3>1, <3>3 DEF Bounded
  <2>5. CASE SetterEnter \/ ClearPred \/ Given
    <3>1. /\ rounds' = rounds /\ pc'[Setter] # "count" /\ pc[Setter] # "count"
          /\ sem' = sem /\ n' = n
      BY <1>0, <2>5 DEF SetterEnter, ClearPred, Given, Goto
    <3>2. QED
      BY <3>1 DEF Bounded, Inv
  <2>6. QED
    BY <2>2, <2>3, <2>4, <2>5 DEF SetterSteps
<1>7. QED
  BY <1>3, <1>4, <1>5, <1>6

-----------------------------------------------------------------------------
(* The theorem *)

\* However many threads wait, time out or come back while a broadcast is under
\* way, there is a token for each of them, and the counter and the semaphore
\* stay within their bounds.
THEOREM NobodyLeftBehind == Spec => []CvInv
<1>1. Init => Inv
  <2> SUFFICES ASSUME Init PROVE Inv
    OBVIOUS
  <2>1. /\ pc[Setter] = "idle" /\ \A w \in Waiters : pc[w] = "idle"
        /\ Setter # Free /\ Setter \notin Waiters /\ Free \notin Waiters
    BY ConstantsAssumption DEF Init, Threads, Free, Setter
  <2>2. Counted = {} /\ Blocked = {} /\ Cardinality({}) = 0
    BY <2>1, FS_EmptySet DEF Counted, Blocked
  <2>3. Types /\ Mutex
    <3>1. pred \in BOOLEAN
      BY Zenon DEF Init
    <3>2. m = Free /\ rounds \in 0 .. MaxRounds
      BY ConstantsAssumption DEF Init
    <3>3. pc \in [Threads -> {"idle", "enter", "test", "exit", "take", "deregister",
                             "change", "count", "give", "over"}]
      BY DEF Init
    <3>4. Mutex
      BY <2>1, <3>2 DEF Mutex
    <3>5. QED
      BY <3>1, <3>2, <3>3, <3>4 DEF Types
  <2>4. NoneEntering /\ Broadcasting /\ TokensSuffice /\ Counts
    BY <2>1, <2>2 DEF Init, NoneEntering, Broadcasting, TokensSuffice, Counts
  <2>5. Bounded
    BY <2>1, Finite DEF Init, Bounded
  <2>6. QED
    BY <2>3, <2>4, <2>5 DEF Inv
<1>2. Inv /\ [Next]_vars => Inv'
  <2> SUFFICES ASSUME Inv, [Next]_vars PROVE Inv'
    OBVIOUS
  <2>1. Types' /\ Mutex'
    BY TypesStep, MutexStep, SMTT(30) DEF Inv
  <2>2. CASE UNCHANGED vars
    BY <2>2
    DEF vars, Inv, Types, Mutex, Counts, Counted, NoneEntering, Broadcasting, TokensSuffice,
        Blocked, Bounded
  <2>3. CASE Next
    BY <2>1, <2>3, WaiterKeeps, SetterKeeps DEF Next, Inv
  <2>4. QED
    BY <2>2, <2>3
<1>3. Inv => CvInv
  <2> SUFFICES ASSUME Inv PROVE CvInv
    OBVIOUS
  <2> DEFINE k == Cardinality(Waiters)
  <2>1. waiters \in 0 .. k
    BY Finite DEF Inv, Counts
  <2>2. sem \in 0 .. MaxRounds * k /\ n \in 0 .. k
    <3>1. /\ sem \in Nat /\ n \in Nat /\ n <= k /\ k \in Nat
          /\ rounds \in Nat /\ MaxRounds \in Nat /\ rounds <= MaxRounds
      BY Finite, ConstantsAssumption DEF Inv, Bounded, Counts, Types
    <3>2. sem <= rounds * k
      BY <3>1 DEF Inv, Bounded
    <3> HIDE DEF k
    <3>3. rounds * k \in Nat /\ MaxRounds * k \in Nat /\ rounds * k <= MaxRounds * k
      BY <3>1
    <3>4. QED
      BY <3>1, <3>2, <3>3
  <2>3. TypeOK
    BY <2>1, <2>2 DEF TypeOK, Inv, Types
  <2>4. QED
    BY <2>3 DEF Inv, CvInv
<1>4. QED
  BY <1>1, <1>2, <1>3, PTL DEF Spec

-----------------------------------------------------------------------------
(* OsalSleep *)

\* What is kept about a wakeup that came between the test and the link: its
\* sleeper is still on the way, nobody else uses the ident, and the table has
\* an entry for it or dropped one.
WindowInv ==
  \A u \in since :
    /\ where[u] = "tested" /\ Alone(u)
    /\ Entries(ident[u]) # {} \/ ident[u] \in lost

\* The slots are those of the threads inside the loop of tsleep.
SlotsInv == slots = {t \in Tasks : where[t] \in {"suspend", "check", "wait"}}

\* The time left is a number in both ports.
LEMMA LeftMsType ==
  ASSUME NEW x \in Int
  PROVE  LeftMs(x) \in Int
<1> DEFINE y == x % TickMod
           z == (y * MsPerSec) % TickMod
           w == z \div MsPerSec
<1>1. TickMod \in Nat \ {0} /\ MsPerSec \in Nat \ {0}
  BY SizesAssumption
<1>2. y \in Int
  BY <1>1
<1> HIDE DEF y
<1>3. y * MsPerSec \in Int
  BY <1>1, <1>2
<1>4. z \in Int
  BY <1>1, <1>3
<1> HIDE DEF z
<1>5. w \in Int
  BY <1>1, <1>4
<1>6. LeftMs(x) = IF port = "freertos"
                  THEN IF w >= TickMod \div 2 THEN w - TickMod ELSE w
                  ELSE x
  BY DEF LeftMs, y, z
<1> HIDE DEF w
<1>7. QED
  BY <1>1, <1>5, <1>6

\* An entry of the table is removed by moving the last one into its place: the
\* table keeps its type, has no new ident, and loses only the entry removed.
LEMMA WithoutIs ==
  ASSUME pending \in Seq(Idents), NEW k \in 1 .. Len(pending)
  PROVE  /\ Without(k) \in Seq(Idents) /\ Len(Without(k)) = Len(pending) - 1
         /\ \A j \in 1 .. Len(Without(k)) : \E p \in 1 .. Len(pending) :
              Without(k)[j] = pending[p]
         /\ \A p \in 1 .. Len(pending) :
              p # k => \E j \in 1 .. Len(Without(k)) : Without(k)[j] = pending[p]
<1> DEFINE L == Len(pending)
           r == Without(k)
<1>1. L \in Nat /\ L >= 1 /\ \A p \in 1 .. L : pending[p] \in Idents
  OBVIOUS
<1>2. r = [j \in 1 .. L - 1 |-> IF j = k THEN pending[L] ELSE pending[j]]
  BY DEF Without
<1> HIDE DEF r
<1>3. r \in [1 .. L - 1 -> Idents] /\ L - 1 \in Nat
  BY <1>1, <1>2
<1>4. r \in Seq(Idents) /\ Len(r) = L - 1
  BY <1>3
<1>5. ASSUME NEW j \in 1 .. L - 1 PROVE \E p \in 1 .. L : r[j] = pending[p]
  <2>1. L \in 1 .. L /\ j \in 1 .. L
    BY <1>1
  <2>2. r[j] = pending[L] \/ r[j] = pending[j]
    BY <1>2
  <2>3. QED
    BY <2>1, <2>2
<1>6. ASSUME NEW p \in 1 .. L, p # k PROVE \E j \in 1 .. L - 1 : r[j] = pending[p]
  <2>1. CASE p = L
    <3>1. k \in 1 .. L - 1
      BY <1>1, <1>6, <2>1
    <3>2. r[k] = pending[p]
      BY <1>2, <2>1, <3>1
    <3>3. QED
      BY <3>1, <3>2
  <2>2. CASE p # L
    <3>1. p \in 1 .. L - 1
      BY <1>1, <2>2
    <3>2. r[p] = pending[p]
      BY <1>2, <1>6, <3>1
    <3>3. QED
      BY <3>1, <3>2
  <2>3. QED
    BY <2>1, <2>2
<1>7. QED
  BY <1>4, <1>5, <1>6 DEF r

\* wlan_tsleep_consume_pending finds the first entry of an ident that has one.
LEMMA FirstIsEntry ==
  ASSUME pending \in Seq(Idents), NEW i, Entries(i) # {}
  PROVE  First(i) \in Entries(i)
<1> DEFINE R == OpToRel(<, Nat)
           E == Entries(i)
<1>1. \A x, y \in Nat : x < y => <<x, y>> \in R
  BY DEF OpToRel
<1>2. IsWellFoundedOn(R, Nat)
  BY NatLessThanWellFounded, Zenon
<1>3. E \subseteq Nat
  BY DEF Entries
<1> HIDE DEF R
<1>4. PICK x \in E : \A y \in E : ~ (<<y, x>> \in R)
  <2> HIDE DEF E
  <2>1. E # {}
    BY DEF E
  <2>2. QED
    BY <1>2, <1>3, <2>1, WFMin, Zenon
<1>5. ASSUME NEW y \in E PROVE x <= y
  <2>1. x \in Nat /\ y \in Nat
    BY <1>3
  <2>2. ~ (y < x)
    BY <1>1, <1>4, <2>1, Zenon
  <2>3. QED
    BY <2>1, <2>2
<1>6. QED
  BY <1>5 DEF First

\* The types hold at the start.
LEMMA SleepInitInv == SleepInit => SleepInv /\ WindowInv
<1> SUFFICES ASSUME SleepInit PROVE SleepInv /\ WindowInv
  BY SMTT(30)
<1>1. SleepTypeOK
  BY SizesAssumption, TasksAssumption DEF SleepInit, SleepTypeOK, TaskPC
<1>2. SerializerBalanced
  BY TasksAssumption, SMTT(30) DEF SleepInit, SerializerBalanced
<1>3. NoneWaitsForRemembered /\ WindowInv
  BY DEF SleepInit, NoneWaitsForRemembered, WindowInv
<1>4. slots = {t \in Tasks : where[t] \in {"suspend", "check", "wait"}}
  BY DEF SleepInit
<1>5. QED
  BY <1>1, <1>2, <1>3, <1>4 DEF SleepInv

\* Every step keeps the types.
LEMMA SleepTypes == SleepInv /\ [SleepNext]_sleepState => SleepTypeOK'
<1> SUFFICES ASSUME SleepInv, [SleepNext]_sleepState PROVE SleepTypeOK'
  OBVIOUS
<1> USE DEF ser, sleepVars, timeVars
<1>0. SleepTypeOK /\ SerializerBalanced
  BY DEF SleepInv
<1>15. where \in [Tasks -> TaskPC] /\ \A x \in Tasks, l \in TaskPC :
         [where EXCEPT ![x] = l] \in [Tasks -> TaskPC]
  BY <1>0 DEF SleepTypeOK
<1>16. /\ ser_owner \in Tasks \cup {NoThread} /\ ser_depth \in 0 .. MaxDepth
       /\ MaxDepth \in Nat /\ nest \in [Tasks -> 0 .. MaxDepth]
       /\ held \in [Tasks -> 0 .. MaxDepth]
  BY <1>0, SizesAssumption DEF SleepTypeOK
<1>17. /\ left \in [Tasks -> Int] /\ nap \in [Tasks -> Nat] /\ timed \in [Tasks -> {0, 1}]
       /\ Quantum \in Nat /\ Timo \in Nat
  BY <1>0, SizesAssumption DEF SleepTypeOK
<1>18. /\ pending \in Seq(Idents) /\ Len(pending) <= PendingMax /\ PendingMax \in Nat
       /\ lost \subseteq Idents
  BY <1>0, SizesAssumption, SMTT(30) DEF SleepTypeOK
<1>1. ASSUME NEW t \in Tasks, Lock(t) PROVE SleepTypeOK'
  <2>1. nest[t] \in 0 .. MaxDepth /\ nest[t] < MaxDepth /\ MaxDepth \in Nat
    BY <1>0, <1>1, SizesAssumption, SMTT(30) DEF Lock, SleepTypeOK
  <2>2. ser_owner = t => ser_depth = nest[t]
    BY <1>0, <1>1, Zenon DEF Lock, SerializerBalanced
  <2>3. ser_depth' \in 0 .. MaxDepth /\ ser_owner' \in Tasks
    BY <1>0, <1>1, <2>1, <2>2, SMTT(30) DEF Lock, SleepTypeOK
  <2>4. nest' \in [Tasks -> 0 .. MaxDepth]
    BY <1>0, <1>1, <2>1, SMTT(30) DEF Lock, SleepTypeOK
  <2>5. QED
    BY <1>0, <1>1, <2>3, <2>4, SMTT(30) DEF Lock, SleepTypeOK
<1>2. ASSUME NEW t \in Tasks, Unlock(t) PROVE SleepTypeOK'
  <2>1. nest[t] \in 0 .. MaxDepth /\ nest[t] > 0 /\ ser_depth \in 0 .. MaxDepth
    BY <1>0, <1>2, SMTT(30) DEF Unlock, SleepTypeOK
  <2>2. nest' \in [Tasks -> 0 .. MaxDepth]
    BY <1>0, <1>2, <2>1, SizesAssumption, SMTT(30) DEF Unlock, SleepTypeOK
  <2>3. ser_depth' \in 0 .. MaxDepth /\ ser_owner' \in Tasks \cup {NoThread}
    BY <1>2, <1>16, <2>1, SMTT(30) DEF Unlock
  <2>4. "panic" \in TaskPC
    BY DEF TaskPC
  <2>5. where' \in [Tasks -> TaskPC]
    BY <1>2, <1>15, <2>4, SMTT(30) DEF Unlock, Go
  <2>6. QED
    BY <1>0, <1>2, <2>2, <2>3, <2>5, SMTT(30) DEF Unlock, SleepTypeOK
<1>3. ASSUME NEW t \in Tasks, NEW i \in Idents, Wakeup(t, i) PROVE SleepTypeOK'
  <2>1. pending' \in Seq(Idents) /\ Len(pending') <= PendingMax /\ lost' \subseteq Idents
    <3>1. \/ UNCHANGED <<pending, lost>>
          \/ Len(pending) < PendingMax /\ pending' = Append(pending, i) /\ lost' = lost
          \/ pending' = pending /\ lost' = lost \cup {i}
      BY <1>3, SMTT(30) DEF Wakeup, Remember
    <3>2. QED
      BY <1>18, <3>1, SMTT(30)
  <2>2. where' \in [Tasks -> TaskPC] /\ nap' \in [Tasks -> Nat]
    <3>1. "give" \in TaskPC /\ "check" \in TaskPC
      BY DEF TaskPC
    <3>2. CASE where' = [where EXCEPT ![t] = "give"] /\ nap' = nap
      BY <1>15, <1>17, <3>1, <3>2
    <3>3. CASE /\ where' = [u \in Tasks |-> IF where[u] = "wait" THEN "check" ELSE where[u]]
               /\ nap' = [u \in Tasks |-> 0]
      BY <1>15, <3>1, <3>3, SMTT(30)
    <3>4. QED
      BY <1>3, <3>2, <3>3 DEF Wakeup, Notify, Go
  <2>3. fired' \subseteq Tasks /\ since' \subseteq Tasks
    BY <1>0, <1>3, SMTT(30) DEF Wakeup, Waiting, SleepTypeOK
  <2>4. QED
    BY <1>0, <1>3, <2>1, <2>2, <2>3, SMTT(30) DEF Wakeup, SleepTypeOK
<1>4. ASSUME NEW t \in Tasks, NEW i \in Idents, NEW td \in {0, 1}, Test(t, i, td)
      PROVE  SleepTypeOK'
  BY <1>0, <1>4, SMTT(30) DEF Test, SleepTypeOK, TaskPC, Go
<1>5. ASSUME NEW t \in Tasks, Link(t) PROVE SleepTypeOK'
  <2>1. pending' \in Seq(Idents) /\ Len(pending') <= PendingMax
    <3>1. CASE Entries(ident[t]) # {}
      <4>1. pending \in Seq(Idents) /\ Len(pending) <= PendingMax /\ PendingMax \in Nat
        BY <1>0, SizesAssumption DEF SleepTypeOK
      <4>2. First(ident[t]) \in 1 .. Len(pending)
        BY <3>1, <4>1, FirstIsEntry, Zenon DEF Entries
      <4>3. pending' = Without(First(ident[t]))
        BY <1>5, <3>1 DEF Link
      <4>4. pending' \in Seq(Idents) /\ Len(pending') = Len(pending) - 1
        BY <4>1, <4>2, <4>3, WithoutIs, SMTT(30)
      <4>5. QED
        BY <4>1, <4>4
    <3>2. CASE Entries(ident[t]) = {}
      BY <1>0, <1>5, <3>2, SMTT(30) DEF Link, SleepTypeOK
    <3>3. QED
      BY <3>1, <3>2
  <2>2. slots' \subseteq Tasks /\ fired' \subseteq Tasks /\ since' \subseteq Tasks
    BY <1>0, <1>5, SMTT(30) DEF Link, SleepTypeOK
  <2>3. where' \in [Tasks -> TaskPC]
    BY <1>0, <1>5, SMTT(30) DEF Link, SleepTypeOK, TaskPC, Go
  <2>4. QED
    BY <1>0, <1>5, <2>1, <2>2, <2>3 DEF Link, SleepTypeOK
<1>6. ASSUME NEW t \in Tasks, Suspend(t) PROVE SleepTypeOK'
  <2>1. left' \in [Tasks -> Int]
    BY <1>6, <1>17, SMTT(30) DEF Suspend
  <2>2. /\ ser_owner' \in Tasks \cup {NoThread} /\ ser_depth' \in 0 .. MaxDepth
        /\ held' \in [Tasks -> 0 .. MaxDepth]
    BY <1>6, <1>16 DEF Suspend
  <2>3. "check" \in TaskPC
    BY SMTT(30) DEF TaskPC
  <2>4. where' \in [Tasks -> TaskPC]
    BY <1>6, <1>15, <2>3 DEF Suspend, Go
  <2>5. QED
    BY <1>0, <1>6, <2>1, <2>2, <2>4, SMTT(30) DEF Suspend, SleepTypeOK
<1>7. ASSUME NEW t \in Tasks, Check(t) PROVE SleepTypeOK'
  <2>1. left[t] \in Int
    BY <1>0 DEF SleepTypeOK
  <2>2. LeftMs(left[t]) \in Int
    BY <2>1, LeftMsType
  <2>3. where' \in [Tasks -> TaskPC] /\ rc' \in [Tasks -> {"0", "EWOULDBLOCK"}]
    BY <1>0, <1>7, Zenon DEF Check, SleepTypeOK, TaskPC, Go
  <2>4. nap' \in [Tasks -> Nat] /\ left' \in [Tasks -> Int]
    <3>1. \/ nap' = nap /\ left' = [left EXCEPT ![t] = 0]
          \/ nap' = [nap EXCEPT ![t] = Quantum] /\ left' = left
          \/ /\ nap' = [nap EXCEPT ![t] = LeftMs(left[t])] /\ left' = left
             /\ ~ (LeftMs(left[t]) <= 0)
      BY <1>7 DEF Check
    <3>2. CASE ~ (LeftMs(left[t]) <= 0)
      <4>1. LeftMs(left[t]) \in Nat
        BY <2>2, <3>2
      <4>2. QED
        BY <1>17, <3>1, <4>1
    <3>3. CASE LeftMs(left[t]) <= 0
      BY <1>17, <3>1, <3>3, SMTT(30)
    <3>4. QED
      BY <3>2, <3>3, SMTT(30)
  <2>5. slots' \subseteq Tasks /\ fired' \subseteq Tasks
    BY <1>0, <1>7, SMTT(30) DEF Check, SleepTypeOK
  <2>6. QED
    BY <1>0, <1>7, <2>3, <2>4, <2>5, Zenon DEF Check, SleepTypeOK
<1>8. ASSUME NEW t \in Tasks, GetToken(t) PROVE SleepTypeOK'
  BY <1>0, <1>8, SizesAssumption, SMTT(30) DEF GetToken, SleepTypeOK, TaskPC, Go
<1>9. ASSUME NEW t \in Tasks, NapOver(t) PROVE SleepTypeOK'
  BY <1>0, <1>9, SMTT(30) DEF NapOver, SleepTypeOK, TaskPC, Go
<1>10. ASSUME NEW t \in Tasks, Resume(t) PROVE SleepTypeOK'
  BY <1>0, <1>10, SizesAssumption, SMTT(30) DEF Resume, SleepTypeOK, TaskPC, Go
<1>11. ASSUME NEW t \in Tasks, GiveToken(t) PROVE SleepTypeOK'
  BY <1>0, <1>11, SizesAssumption, SMTT(30) DEF GiveToken, SleepTypeOK, TaskPC, Go
<1>12. ASSUME Tick PROVE SleepTypeOK'
  <2>1. left' \in [Tasks -> Int] /\ nap' \in [Tasks -> Nat]
    BY <1>0, <1>12, SMTT(30) DEF Tick, SleepTypeOK
  <2>2. QED
    BY <1>0, <1>12, <2>1, SMTT(30) DEF Tick, SleepTypeOK
<1>13. ASSUME UNCHANGED sleepState PROVE SleepTypeOK'
  BY <1>0, <1>13, SMTT(30) DEF sleepState, SleepTypeOK
<1>14. QED
  BY <1>1, <1>2, <1>3, <1>4, <1>5, <1>6, <1>7, <1>8, <1>9, <1>10, <1>11, <1>12, <1>13
  DEF SleepNext, Tsleep

\* Every step keeps the serializer balanced: only its owner unlocks it, and a
\* sleep gives it back at the depth it had.
LEMMA SleepBalanced == SleepInv /\ [SleepNext]_sleepState => SerializerBalanced'
<1> SUFFICES ASSUME SleepInv, [SleepNext]_sleepState PROVE SerializerBalanced'
  BY SMTT(30)
<1> USE DEF ser, sleepVars, timeVars
<1>0. /\ where \in [Tasks -> TaskPC] /\ nest \in [Tasks -> 0 .. MaxDepth]
      /\ held \in [Tasks -> 0 .. MaxDepth] /\ ser_depth \in 0 .. MaxDepth
      /\ MaxDepth \in Nat /\ NoThread \notin Tasks /\ SerializerBalanced
  BY SizesAssumption, TasksAssumption, SMTT(30) DEF SleepInv, SleepTypeOK
<1>1. ASSUME NEW t \in Tasks, Lock(t) PROVE SerializerBalanced'
  BY <1>0, <1>1, SMTT(30) DEF Lock, SerializerBalanced
<1>2. ASSUME NEW t \in Tasks, Unlock(t) PROVE SerializerBalanced'
  <2>1. ser_owner = t /\ ser_depth = nest[t] /\ nest[t] > 0
    BY <1>0, <1>2, SMTT(30) DEF Unlock, SerializerBalanced
  <2>2. /\ ser_depth' = ser_depth - 1 /\ where' = where
        /\ ser_owner' = IF ser_depth = 1 THEN NoThread ELSE ser_owner
        /\ nest' = [nest EXCEPT ![t] = @ - 1] /\ held' = held
    BY <1>0, <1>2, <2>1, SMTT(30) DEF Unlock
  <2>3. QED
    BY <1>0, <2>1, <2>2, SMTT(30) DEF SerializerBalanced
<1>3. ASSUME NEW t \in Tasks, NEW i \in Idents, Wakeup(t, i) PROVE SerializerBalanced'
  <2>1. \A u \in Tasks : \/ where'[u] = where[u]
                         \/ where[u] = "run" /\ where'[u] = "give"
                         \/ where[u] = "wait" /\ where'[u] = "check"
    BY <1>0, <1>3, SMTT(30) DEF Wakeup, Notify, Go
  <2>2. UNCHANGED <<ser_owner, ser_depth, nest, held>>
    BY <1>3, SMTT(30) DEF Wakeup
  <2>3. QED
    BY <1>0, <2>1, <2>2, SMTT(30) DEF SerializerBalanced
<1>4. ASSUME NEW t \in Tasks, NEW i \in Idents, NEW td \in {0, 1}, Test(t, i, td)
      PROVE  SerializerBalanced'
  BY <1>0, <1>4, SMTT(30) DEF Test, SerializerBalanced, Go
<1>5. ASSUME NEW t \in Tasks, Link(t) PROVE SerializerBalanced'
  BY <1>0, <1>5, SMTT(30) DEF Link, SerializerBalanced, Go
<1>6. ASSUME NEW t \in Tasks, Suspend(t) PROVE SerializerBalanced'
  BY <1>0, <1>6, SMTT(30) DEF Suspend, SerializerBalanced, Go
<1>7. ASSUME NEW t \in Tasks, Check(t) PROVE SerializerBalanced'
  <2>1. \A u \in Tasks : \/ where'[u] = where[u]
                         \/ where[u] = "check" /\ where'[u] \in {"resume", "wait"}
    BY <1>0, <1>7, SMTT(30) DEF Check, Go
  <2>2. UNCHANGED <<ser_owner, ser_depth, nest, held>>
    BY <1>7, SMTT(30) DEF Check
  <2>3. QED
    BY <1>0, <2>1, <2>2, SMTT(30) DEF SerializerBalanced
<1>8. ASSUME NEW t \in Tasks, GetToken(t) PROVE SerializerBalanced'
  BY <1>0, <1>8, SMTT(30) DEF GetToken, SerializerBalanced, Go
<1>9. ASSUME NEW t \in Tasks, NapOver(t) PROVE SerializerBalanced'
  BY <1>0, <1>9, SMTT(30) DEF NapOver, SerializerBalanced, Go
<1>10. ASSUME NEW t \in Tasks, Resume(t) PROVE SerializerBalanced'
  BY <1>0, <1>10, SMTT(30) DEF Resume, SerializerBalanced, Go
<1>11. ASSUME NEW t \in Tasks, GiveToken(t) PROVE SerializerBalanced'
  BY <1>0, <1>11, SMTT(30) DEF GiveToken, SerializerBalanced, Go
<1>12. ASSUME Tick PROVE SerializerBalanced'
  BY <1>0, <1>12, SMTT(30) DEF Tick, SerializerBalanced
<1>13. ASSUME UNCHANGED sleepState PROVE SerializerBalanced'
  BY <1>0, <1>13, SMTT(30) DEF sleepState, SerializerBalanced
<1>14. QED
  BY <1>1, <1>2, <1>3, <1>4, <1>5, <1>6, <1>7, <1>8, <1>9, <1>10, <1>11, <1>12, <1>13
  DEF SleepNext, Tsleep

\* Every step keeps the slots those of the threads in the loop.
LEMMA SleepSlots == SleepInv /\ [SleepNext]_sleepState => SlotsInv'
<1> SUFFICES ASSUME SleepInv, [SleepNext]_sleepState PROVE SlotsInv'
  BY SMTT(30)
<1> USE DEF ser, sleepVars, timeVars
<1>0. where \in [Tasks -> TaskPC] /\ SlotsInv
  BY SMTT(30) DEF SleepInv, SleepTypeOK, SlotsInv
<1>1. ASSUME NEW t \in Tasks, Lock(t) \/ Unlock(t) PROVE SlotsInv'
  BY <1>0, <1>1, SMTT(30) DEF Lock, Unlock, SlotsInv, Go
<1>2. ASSUME NEW t \in Tasks, NEW i \in Idents, Wakeup(t, i) PROVE SlotsInv'
  <2>1. \A u \in Tasks : \/ where'[u] = where[u]
                         \/ where[u] = "run" /\ where'[u] = "give"
                         \/ where[u] = "wait" /\ where'[u] = "check"
    BY <1>0, <1>2 DEF Wakeup, Notify, Go
  <2>2. slots' = slots
    BY <1>2, Zenon DEF Wakeup
  <2>3. QED
    BY <1>0, <2>1, <2>2, SMTT(30) DEF SlotsInv
<1>3. ASSUME NEW t \in Tasks, NEW i \in Idents, NEW td \in {0, 1}, Test(t, i, td)
      PROVE  SlotsInv'
  BY <1>0, <1>3, SMTT(30) DEF Test, SlotsInv, Go
<1>4. ASSUME NEW t \in Tasks, Link(t) PROVE SlotsInv'
  BY <1>0, <1>4, SMTT(30) DEF Link, SlotsInv, Go
<1>5. ASSUME NEW t \in Tasks, Suspend(t) \/ Resume(t) \/ GiveToken(t) PROVE SlotsInv'
  BY <1>0, <1>5 DEF Suspend, Resume, GiveToken, SlotsInv, Go
<1>6. ASSUME NEW t \in Tasks, Check(t) PROVE SlotsInv'
  BY <1>0, <1>6, Zenon DEF Check, SlotsInv, Go
<1>7. ASSUME NEW t \in Tasks, GetToken(t) \/ NapOver(t) PROVE SlotsInv'
  BY <1>0, <1>7, SMTT(30) DEF GetToken, NapOver, SlotsInv, Go
<1>8. ASSUME Tick PROVE SlotsInv'
  BY <1>0, <1>8, SMTT(30) DEF Tick, SlotsInv
<1>9. ASSUME UNCHANGED sleepState PROVE SlotsInv'
  BY <1>0, <1>9, SMTT(30) DEF sleepState, SlotsInv
<1>10. QED
  BY <1>1, <1>2, <1>3, <1>4, <1>5, <1>6, <1>7, <1>8, <1>9 DEF SleepNext, Tsleep

\* The table q has an entry of ident i.
Has(q, i) == \E k \in 1 .. Len(q) : q[k] = i

\* Linking a slot takes at most one entry of its own ident from the table.
LEMMA LinkTakesOne ==
  ASSUME pending \in Seq(Idents), NEW t \in Tasks, Link(t)
  PROVE  \A i : /\ Has(pending', i) => Has(pending, i)
                /\ i # ident[t] /\ Has(pending, i) => Has(pending', i)
<1>1. CASE Entries(ident[t]) = {}
  BY <1>1, Zenon DEF Link
<1>2. CASE Entries(ident[t]) # {}
  <2> DEFINE k == First(ident[t])
  <2>1. k \in 1 .. Len(pending) /\ pending[k] = ident[t]
    BY <1>2, FirstIsEntry, SMTT(30) DEF Entries
  <2>2. pending' = Without(k)
    BY <1>2 DEF Link
  <2> HIDE DEF k
  <2>3. /\ \A j \in 1 .. Len(pending') : \E p \in 1 .. Len(pending) : pending'[j] = pending[p]
        /\ \A p \in 1 .. Len(pending) :
             p # k => \E j \in 1 .. Len(pending') : pending'[j] = pending[p]
    BY <2>1, <2>2, WithoutIs, Zenon
  <2>4. QED
    BY <2>1, <2>3, Zenon DEF Has
<1>3. QED
  BY <1>1, <1>2

\* Remembering an ident adds it to the table or drops it.
LEMMA WakeupRemembers ==
  ASSUME pending \in Seq(Idents), NEW t \in Tasks, NEW i \in Idents, Wakeup(t, i)
  PROVE  /\ \A x : Has(pending, x) => Has(pending', x)
         /\ \A x : x # i /\ Has(pending', x) => Has(pending, x)
         /\ Waiting(i) # {} => pending' = pending
         /\ Waiting(i) = {} => Has(pending', i) \/ i \in lost'
         /\ lost \subseteq lost'
<1>1. CASE pending' = pending /\ Waiting(i) # {} /\ lost' = lost
  BY <1>1, SMTT(30)
<1>2. CASE pending' = pending /\ lost' = lost \cup {i} /\ Waiting(i) = {}
  BY <1>2, SMTT(30)
<1>3. CASE pending' = Append(pending, i) /\ Waiting(i) = {} /\ lost' = lost
  <2>1. /\ Len(pending) \in Nat /\ Len(pending') = Len(pending) + 1
        /\ \A k \in 1 .. Len(pending) : pending'[k] = pending[k]
        /\ pending'[Len(pending) + 1] = i
    BY <1>3
  <2>2. \A x : Has(pending, x) => Has(pending', x)
    BY <2>1, SMTT(30) DEF Has
  <2>3. \A x : x # i /\ Has(pending', x) => Has(pending, x)
    BY <2>1, SMTT(30) DEF Has
  <2>4. Has(pending', i)
    BY <2>1 DEF Has
  <2>5. QED
    BY <1>3, <2>2, <2>3, <2>4, SMTT(30)
<1>4. QED
  BY <1>1, <1>2, <1>3, Zenon DEF Wakeup, Remember

\* Every step keeps unfired sleepers and remembered wakeups of one ident apart.
LEMMA SleepRemembered == SleepInv /\ [SleepNext]_sleepState => NoneWaitsForRemembered'
<1> SUFFICES ASSUME SleepInv, [SleepNext]_sleepState PROVE NoneWaitsForRemembered'
  OBVIOUS
<1> USE DEF ser, sleepVars, timeVars
<1>0. /\ where \in [Tasks -> TaskPC] /\ SlotsInv /\ slots \subseteq Tasks
      /\ pending \in Seq(Idents) /\ ident \in [Tasks -> Idents]
  BY SMTT(30) DEF SleepInv, SleepTypeOK, SlotsInv
<1>1. \A u \in slots \ fired : ~ Has(pending, ident[u])
  BY DEF SleepInv, NoneWaitsForRemembered, Entries, Has
<1>2. SUFFICES \A u \in slots' \ fired' : ~ Has(pending', ident'[u])
  BY DEF NoneWaitsForRemembered, Entries, Has
<1>3. CASE UNCHANGED <<slots, fired, pending, ident>>
  BY <1>1, <1>3, SMTT(30)
<1>4. ASSUME NEW t \in Tasks, NEW i \in Idents, Wakeup(t, i)
      PROVE  \A u \in slots' \ fired' : ~ Has(pending', ident'[u])
  <2> SUFFICES ASSUME NEW u \in slots' \ fired' PROVE ~ Has(pending', ident'[u])
    BY SMTT(30)
  <2>1. u \in slots \ fired /\ ident[u] # i /\ ident' = ident
    BY <1>4, SMTT(30) DEF Wakeup, Waiting
  <2>2. QED
    BY <1>0, <1>1, <1>4, <2>1, WakeupRemembers
<1>5. ASSUME NEW t \in Tasks, NEW i \in Idents, NEW td \in {0, 1}, Test(t, i, td)
      PROVE  \A u \in slots' \ fired' : ~ Has(pending', ident'[u])
  <2>1. t \notin slots
    BY <1>0, <1>5, SMTT(30) DEF Test, SlotsInv
  <2>2. slots' = slots /\ fired' = fired /\ pending' = pending /\ \A u \in slots : ident'[u] = ident[u]
    BY <1>0, <1>5, <2>1 DEF Test
  <2>3. QED
    BY <1>1, <2>2, SMTT(30)
<1>6. ASSUME NEW t \in Tasks, Link(t)
      PROVE  \A u \in slots' \ fired' : ~ Has(pending', ident'[u])
  <2> SUFFICES ASSUME NEW u \in slots' \ fired' PROVE ~ Has(pending', ident'[u])
    BY SMTT(30)
  <2>1. ident' = ident
    BY <1>6, Zenon DEF Link
  <2>2. CASE u = t
    <3>1. Entries(ident[t]) = {} /\ pending' = pending
      BY <1>6, <2>2, Zenon DEF Link
    <3>2. QED
      BY <2>1, <2>2, <3>1, SMTT(30) DEF Entries, Has
  <2>3. CASE u # t
    <3>1. u \in slots \ fired
      BY <1>6, <2>3 DEF Link
    <3>2. QED
      BY <1>0, <1>1, <1>6, <2>1, <3>1, LinkTakesOne, SMTT(30)
  <2>4. QED
    BY <2>2, <2>3
<1>7. ASSUME NEW t \in Tasks, Check(t)
      PROVE  \A u \in slots' \ fired' : ~ Has(pending', ident'[u])
  <2>1. pending' = pending /\ ident' = ident /\ slots' \ fired' \subseteq slots \ fired
    BY <1>7, SMTT(30) DEF Check
  <2>2. QED
    BY <1>1, <2>1, SMTT(30)
<1>8. QED
  BY <1>3, <1>4, <1>5, <1>6, <1>7, Zenon
  DEF SleepNext, Tsleep, Lock, Unlock, Suspend, GetToken, NapOver, Resume, GiveToken, Tick,
      sleepState

\* What WindowInv says of one sleeper.
Covered(u) ==
  /\ where[u] = "tested"
  /\ Has(pending, ident[u]) \/ ident[u] \in lost
  /\ \A v \in Tasks \ {u} : where[v] \notin {"run", "give"} => ident[v] # ident[u]

\* Every step keeps what is known of a wakeup in the window: the entry it left
\* in the table is taken by its own sleeper only.
LEMMA SleepWindow == SleepInv /\ WindowInv /\ [SleepNext]_sleepState => WindowInv'
<1> SUFFICES ASSUME SleepInv, WindowInv, [SleepNext]_sleepState PROVE WindowInv'
  OBVIOUS
<1> USE DEF ser, sleepVars, timeVars
<1>0. /\ where \in [Tasks -> TaskPC] /\ SlotsInv /\ slots \subseteq Tasks
      /\ pending \in Seq(Idents) /\ ident \in [Tasks -> Idents] /\ since \subseteq Tasks
      /\ \A v \in Tasks : where[v] # "panic"
  BY SMTT(30) DEF SleepInv, SleepTypeOK, SlotsInv, SerializerBalanced
<1>1. \A u \in since : Covered(u)
  BY SMTT(30) DEF WindowInv, Alone, Entries, Has, Covered
<1>2. SUFFICES \A u \in since' : Covered(u)'
  BY SMTT(30) DEF WindowInv, Alone, Entries, Has, Covered
<1>3. ASSUME UNCHANGED <<since, pending, ident, lost>>,
             \A v \in Tasks : \/ where'[v] = where[v]
                              \/ /\ where[v] # "tested"
                                 /\ where[v] \in {"run", "give"} => where'[v] \in {"run", "give"}
      PROVE  \A u \in since' : Covered(u)'
  BY <1>0, <1>1, <1>3 DEF Covered
<1>4. ASSUME NEW t \in Tasks, NEW i \in Idents, Wakeup(t, i)
      PROVE  \A u \in since' : Covered(u)'
  <2> SUFFICES ASSUME NEW u \in since' PROVE Covered(u)'
    BY SMTT(30)
  <2>1. ident' = ident /\ where[t] = "run"
        /\ \A v \in Tasks : \/ where'[v] = where[v]
                            \/ v = t /\ where'[v] = "give"
                            \/ where[v] = "wait" /\ where'[v] = "check"
    BY <1>0, <1>4, SMTT(30) DEF Wakeup, Notify, Go
  <2>2. /\ \A x : Has(pending, x) => Has(pending', x)
        /\ Waiting(i) = {} => Has(pending', i) \/ i \in lost'
        /\ lost \subseteq lost'
    BY <1>0, <1>4, WakeupRemembers, SMTT(30)
  <2>3. CASE u \in since
    <3>1. Covered(u)
      BY <1>1, <2>3
    <3>2. QED
      BY <1>0, <2>1, <2>2, <2>3, <3>1 DEF Covered
  <2>4. CASE u \notin since
    <3>1. u \in Tasks /\ where[u] = "tested" /\ ident[u] = i /\ Alone(u)
      BY <1>4, <2>4, Zenon DEF Wakeup
    <3>2. Waiting(i) = {}
      BY <1>0, <3>1, SMTT(30) DEF Waiting, SlotsInv, Alone
    <3>3. Has(pending', ident'[u]) \/ ident'[u] \in lost'
      BY <2>1, <2>2, <3>1, <3>2, Zenon
    <3>4. where'[u] = "tested"
      BY <2>1, <3>1, SMTT(30)
    <3>5. \A v \in Tasks \ {u} : where'[v] \notin {"run", "give"} => ident'[v] # ident'[u]
      BY <2>1, <3>1, SMTT(30) DEF Alone
    <3>6. QED
      BY <3>3, <3>4, <3>5, Zenon DEF Covered
  <2>5. QED
    BY <2>3, <2>4
<1>5. ASSUME NEW t \in Tasks, NEW i \in Idents, NEW td \in {0, 1}, Test(t, i, td)
      PROVE  \A u \in since' : Covered(u)'
  <2> SUFFICES ASSUME NEW u \in since' PROVE Covered(u)'
    BY SMTT(30)
  <2>1. /\ u \in since /\ u # t /\ ident[u] # i /\ UNCHANGED <<pending, lost>>
        /\ ident' = [ident EXCEPT ![t] = i] /\ where' = [where EXCEPT ![t] = "tested"]
    BY <1>0, <1>5 DEF Test, Go
  <2>2. Covered(u)
    BY <1>1, <2>1, SMTT(30)
  <2>3. QED
    BY <1>0, <2>1, <2>2 DEF Covered
<1>6. ASSUME NEW t \in Tasks, Link(t)
      PROVE  \A u \in since' : Covered(u)'
  <2> SUFFICES ASSUME NEW u \in since' PROVE Covered(u)'
    BY SMTT(30)
  <2>1. /\ u \in since /\ u # t /\ where[t] = "tested" /\ UNCHANGED <<ident, lost>>
        /\ where' = [where EXCEPT ![t] = "suspend"]
    BY <1>6, SMTT(30) DEF Link, Go
  <2>2. Covered(u) /\ ident[u] # ident[t]
    BY <1>0, <1>1, <2>1, SMTT(30) DEF Covered
  <2>3. Has(pending, ident[u]) => Has(pending', ident[u])
    BY <1>0, <1>6, <2>2, LinkTakesOne, SMTT(30)
  <2>4. QED
    BY <1>0, <2>1, <2>2, <2>3 DEF Covered
<1>7. ASSUME NEW t \in Tasks,
             Lock(t) \/ Unlock(t) \/ Suspend(t) \/ Check(t) \/ GetToken(t) \/ NapOver(t)
               \/ Resume(t) \/ GiveToken(t)
      PROVE  \A u \in since' : Covered(u)'
  <2>1. UNCHANGED <<since, pending, ident, lost>>
    BY <1>7, Zenon DEF Lock, Unlock, Suspend, Check, GetToken, NapOver, Resume, GiveToken
  <2>2. /\ where[t] # "tested"
        /\ \/ where' = where
           \/ \E l \in TaskPC : /\ where' = [where EXCEPT ![t] = l]
                                /\ where[t] \in {"run", "give"} => l \in {"run", "give", "panic"}
    <3>1. CASE Lock(t) \/ Unlock(t)
      BY <3>1, SMTT(30) DEF Lock, Unlock, Go, TaskPC
    <3>2. CASE Suspend(t) \/ Check(t)
      BY <3>2, SMTT(30) DEF Suspend, Check, Go, TaskPC
    <3>3. CASE GetToken(t) \/ NapOver(t)
      BY <3>3, SMTT(30) DEF GetToken, NapOver, Go, TaskPC
    <3>4. CASE Resume(t) \/ GiveToken(t)
      BY <3>4, SMTT(30) DEF Resume, GiveToken, Go, TaskPC
    <3> QED BY <1>7, <3>1, <3>2, <3>3, <3>4, Zenon
  <2>3. \A v \in Tasks : where'[v] # "panic"
    BY SleepBalanced, SMTT(30) DEF SerializerBalanced
  <2>4. QED
    BY <1>0, <1>3, <2>1, <2>2, <2>3
<1>8. CASE Tick \/ UNCHANGED sleepState
  BY <1>3, <1>8 DEF Tick, sleepState
<1>9. QED
  BY <1>4, <1>5, <1>6, <1>7, <1>8, SMTT(30) DEF SleepNext, Tsleep

\* Together they are inductive.
LEMMA SleepNextInv ==
  SleepInv /\ WindowInv /\ [SleepNext]_sleepState => (SleepInv /\ WindowInv)'
  BY SleepTypes, SleepBalanced, SleepSlots, SleepRemembered, SleepWindow, Zenon DEF SleepInv, SlotsInv

\* For any number of threads and idents, any table and either port, the
\* serializer is balanced around every sleep, its unlock never panics, the
\* slots are those of the threads in the loop, and none of them waits for a
\* wakeup that the table remembers.
THEOREM SleepStaysSound == SleepSpec => []SleepInv
  BY SleepNextInv, SleepInitInv, PTL DEF SleepSpec

\* A wakeup between the driver's test and the link of the slot fires the slot,
\* for any number of threads and idents and either port: unless the table was
\* full, or another thread has come to sleep on the ident.
THEOREM WakeupInWindow == SleepSpec => WindowCovered
<1>1. ASSUME SleepInv, WindowInv, [SleepNext]_sleepState, NEW t \in Tasks,
             where[t] = "tested", where'[t] = "suspend", t \in since
      PROVE  t \in fired' \/ ident[t] \in lost
  <2>1. where \in [Tasks -> TaskPC]
    BY <1>1 DEF SleepInv, SleepTypeOK
  <2>2. Link(t)
    BY <1>1, <2>1, Zenon
    DEF SleepNext, Tsleep, Lock, Unlock, Wakeup, Notify, Test, Link, Suspend, Check, GetToken,
        NapOver, Resume, GiveToken, Tick, Go, sleepState
  <2>3. Entries(ident[t]) # {} \/ ident[t] \in lost
    BY <1>1, Zenon DEF WindowInv
  <2>4. QED
    BY <2>2, <2>3, Zenon DEF Link
<1>2. SleepInv /\ WindowInv /\ [SleepNext]_sleepState =>
        [\A t \in Tasks : where[t] = "tested" /\ where'[t] = "suspend" /\ t \in since
                            => t \in fired' \/ ident[t] \in lost]_sleepState
  BY <1>1, Zenon
<1>3. QED
  BY <1>2, SleepNextInv, SleepInitInv, PTL DEF SleepSpec, WindowCovered

\* A fired slot keeps its flag as long as it is linked: no thread clears the
\* flag of another, and a thread clears its own only before it links the slot
\* and when it unlinks it.
THEOREM FlagKept == SleepSpec => [][fired \cap slots \cap slots' \subseteq fired']_sleepState
<1>1. ASSUME SleepInv, [SleepNext]_sleepState PROVE fired \cap slots \cap slots' \subseteq fired'
  <2>1. slots = {t \in Tasks : where[t] \in {"suspend", "check", "wait"}}
    BY <1>1 DEF SleepInv
  <2>2. ASSUME NEW t \in Tasks, Link(t) PROVE fired \cap slots \cap slots' \subseteq fired'
    BY <2>1, <2>2, Zenon DEF Link
  <2>3. ASSUME NEW t \in Tasks, Check(t) PROVE fired \cap slots \cap slots' \subseteq fired'
    BY <2>3, Zenon DEF Check
  <2>4. CASE fired \subseteq fired'
    BY <2>4
  <2>5. QED
    BY <1>1, <2>2, <2>3, <2>4, Zenon
    DEF SleepNext, Tsleep, Lock, Unlock, Wakeup, Test, Suspend, GetToken, NapOver, Resume,
        GiveToken, Tick, sleepState
<1>2. SleepInv /\ [SleepNext]_sleepState =>
        [fired \cap slots \cap slots' \subseteq fired']_sleepState
  BY <1>1
<1>3. QED
  BY <1>2, SleepStaysSound, PTL DEF SleepSpec
=============================================================================
