--------------------------- MODULE ScullFifoProofs ---------------------------
(***************************************************************************)
(* Theorems about ScullFifo, for any readers and writers, any ring size,   *)
(* any element size and any messages.                                      *)
(***************************************************************************)
EXTENDS ScullFifo, FiniteSetTheorems, TLAPS

-----------------------------------------------------------------------------
(* The sizes of an element and of the block are positive.                  *)
LEMMA SizesPositive ==
    /\ SlotSz \in Nat /\ SlotSz >= 1
    /\ Cap \in Nat /\ Cap >= 1
  <1>1. SlotSz \in Nat /\ SlotSz >= 1
    BY SizesAssumption DEF SlotSz
  <1>2. Cap \in Nat
    BY <1>1, SizesAssumption DEF Cap
  <1>3. Cap >= 1
    <2>1. \A m, n \in Nat : m >= 1 /\ n >= 1 => m * n >= 1
      OBVIOUS
    <2> QED BY <1>1, <2>1, SizesAssumption DEF Cap
  <1> QED BY <1>1, <1>2, <1>3

(* A message is a sequence of words.                                       *)
LEMMA TuplesAreSequences ==
    ASSUME NEW n \in Nat, NEW S, NEW s \in [1..n -> S]
    PROVE  s \in Seq(S) /\ Len(s) = n
  OBVIOUS

(* What memory serves is a word.                                           *)
LEMMA WordsAtInt ==
    ASSUME TypeOK, NEW a \in Nat
    PROVE  WordsAt(a) \subseteq Int
  BY DataAssumption DEF WordsAt, TypeOK

(* Storing and copying keep the block a block of words.                    *)
LEMMA StoreKeepsBlock ==
    ASSUME NEW mem \in [0..Cap-1 -> Int], NEW a \in Int, NEW word \in Int
    PROVE  StoreAt(mem, a, word) \in [0..Cap-1 -> Int]
  BY DEF StoreAt

LEMMA CopyKeepsBlock ==
    ASSUME NEW mem \in [0..Cap-1 -> Int], NEW a \in Int,
           NEW n \in Nat, NEW k \in 0..n,
           NEW message \in Seq(Int), Len(message) >= n
    PROVE  CopyIn(mem, a, n, k, message) \in [0..Cap-1 -> Int]
  <1>1. \A i \in a .. a+k-1 : message[i - a + 1] \in Int
    <2> SUFFICES ASSUME NEW i \in a .. a+k-1 PROVE message[i - a + 1] \in Int
      OBVIOUS
    <2>1. i - a + 1 \in 1..Len(message)
      BY SizesPositive
    <2> QED BY <2>1
  <1> QED BY <1>1 DEF CopyIn

LEMMA AtMostElemType ==
    ASSUME NEW n \in Nat
    PROVE  AtMostElem(n) \in Nat /\ AtMostElem(n) <= n /\ AtMostElem(n) <= ElemSz
  BY SizesAssumption DEF AtMostElem

LEMMA CopyCountType ==
    ASSUME TypeOK, NEW r \in Readers
    PROVE  CopyCount(r) \in Nat
  BY DEF TypeOK, CopyCount, Procs
-----------------------------------------------------------------------------
(* Types *)

(* A writer's buffer holds the words of the message it was called with as  *)
(* long as the call lasts: what copy_from_user reads exists.               *)
MessageKept == \A w \in Writers : pc[w] \in WriterPlaces => Len(buf[w]) = count[w]

Typed == TypeOK /\ MessageKept

LEMMA TypedInit == Init => Typed
  <1> SUFFICES ASSUME Init PROVE Typed
    OBVIOUS
  <1>1. circleBuffer \in [0..Cap-1 -> Int]
    BY DataAssumption DEF Init
  <1>2. /\ start \in Nat /\ end \in Nat /\ FULL \in Nat /\ EMPTY \in Nat
        /\ mLock \in Procs \cup {Nobody}
    BY SizesAssumption DEF Init
  <1>3. /\ pc \in [Procs -> {"idle"} \cup ReaderPlaces \cup WriterPlaces]
        /\ \A r \in Readers : pc[r] \in {"idle"} \cup ReaderPlaces
        /\ \A w \in Writers : pc[w] \in {"idle"} \cup WriterPlaces
    BY DEF Init, Procs
  <1>4. /\ count \in [Procs -> Nat]
        /\ len \in [Readers -> Int]
        /\ store_len \in [Writers -> Nat]
        /\ buf \in [Procs -> Seq(Int)]
        /\ returned \in [Procs -> Int]
    BY DEF Init
  <1>5. MessageKept
    BY DEF Init, MessageKept, WriterPlaces, Procs
  <1> QED BY <1>1, <1>2, <1>3, <1>4, <1>5 DEF Typed, TypeOK

LEMMA ReadTyped ==
    ASSUME Typed, NEW r \in Readers, RBegin(r) \/ ReadStep(r) \/ ReadFault(r)
    PROVE  Typed'
  <1> USE DEF Typed, MessageKept, TypeOK, Goto, Return, ReadEnds, ring, locals
  <1>a. r \in Procs /\ r \notin Writers
    BY ProcsAssumption DEF Procs
  <1>b. \A x \in ReaderPlaces \cup {"idle"} :
          pc' = [pc EXCEPT ![r] = x] =>
            /\ pc' \in [Procs -> {"idle"} \cup ReaderPlaces \cup WriterPlaces]
            /\ \A q \in Readers : pc'[q] \in {"idle"} \cup ReaderPlaces
            /\ \A w \in Writers : pc'[w] = pc[w]
            /\ \A w \in Writers : pc'[w] \in {"idle"} \cup WriterPlaces
    BY <1>a, ProcsAssumption DEF Procs
  <1>c. ReaderPlaces = {"r_down", "r_lock", "r_copy", "r_move", "r_wrap", "r_up",
                        "r_giveback"}
    BY DEF ReaderPlaces
  <1>1. CASE RBegin(r)
    <2>1. PICK w \in WordsAt(start) : len' = [len EXCEPT ![r] = w]
      BY <1>1 DEF RBegin
    <2>2. w \in Int
      BY <2>1, WordsAtInt
    <2>3. count' \in [Procs -> Nat] /\ \A x \in Writers : count'[x] = count[x]
      BY <1>1, <1>a, DataAssumption DEF RBegin, Procs
    <2>4. buf' \in [Procs -> Seq(Int)] /\ \A x \in Writers : buf'[x] = buf[x]
      BY <1>1, <1>a DEF RBegin, Procs
    <2> QED BY <1>1, <1>a, <1>b, <1>c, <2>1, <2>2, <2>3, <2>4, SMTT(30) DEF RBegin
  <1>2. CASE RDown(r)
    BY <1>2, <1>a, <1>b, <1>c DEF RDown
  <1>3. CASE RDownSignal(r)
    <2>1. \A x \in Writers : count'[x] = count[x] /\ buf'[x] = buf[x]
      BY <1>3, <1>a DEF RDownSignal, Procs
    <2> QED BY <1>3, <1>a, <1>b, <1>c, <2>1 DEF RDownSignal
  <1>4. CASE RLock(r)
    BY <1>4, <1>a, <1>b, <1>c DEF RLock
  <1>5. CASE RLockSignal(r)
    BY <1>5, <1>a, <1>b, <1>c DEF RLockSignal
  <1>6. CASE RCopy(r)
    <2>1. PICK s \in Deliveries(start + 1, CopyCount(r)) : buf' = [buf EXCEPT ![r] = s]
      BY <1>6 DEF RCopy
    <2>2. s \in Seq(Int)
      <3>1. CopyCount(r) \in Nat
        BY CopyCountType
      <3>2. Junk \cup {circleBuffer[i] : i \in 0..Cap-1} \subseteq Int
        BY DataAssumption
      <3>3. s \in [1..CopyCount(r) -> Int]
        BY <2>1, <3>2 DEF Deliveries
      <3> QED BY <3>1, <3>3, TuplesAreSequences
    <2>3. buf' \in [Procs -> Seq(Int)] /\ \A x \in Writers : buf'[x] = buf[x]
      BY <1>a, <2>1, <2>2 DEF Procs
    <2>4. returned' \in [Procs -> Int]
      BY <1>6, <1>a, SizesAssumption DEF RCopy
    <2> QED BY <1>6, <1>a, <1>b, <1>c, <2>3, <2>4 DEF RCopy
  <1>7. CASE RCopyFails(r)
    BY <1>7, <1>a, <1>b, <1>c DEF RCopyFails
  <1>8. CASE RMove(r)
    BY <1>8, <1>b, <1>c, SizesPositive DEF RMove
  <1>9. CASE RWrap(r)
    BY <1>9, <1>b, <1>c, SizesPositive DEF RWrap
  <1>10. CASE RUp(r)
    <2>1. \A x \in Writers : count'[x] = count[x] /\ buf'[x] = buf[x]
      BY <1>10, <1>a DEF RUp, Procs
    <2> QED BY <1>10, <1>a, <1>b, <1>c, <2>1 DEF RUp
  <1>11. CASE RGiveBack(r)
    <2>1. \A x \in Writers : count'[x] = count[x] /\ buf'[x] = buf[x]
      BY <1>11, <1>a DEF RGiveBack, Procs
    <2> QED BY <1>11, <1>a, <1>b, <1>c, <2>1 DEF RGiveBack
  <1> QED BY <1>1, <1>2, <1>3, <1>4, <1>5, <1>6, <1>7, <1>8, <1>9, <1>10, <1>11
       DEF ReadStep, ReadFault

LEMMA WriteTyped ==
    ASSUME Typed, NEW w \in Writers, WBegin(w) \/ WriteStep(w) \/ WriteFault(w)
    PROVE  Typed'
  <1> USE DEF Typed, MessageKept, TypeOK, Goto, Return, WriteEnds, ring, locals
  <1>a. w \in Procs /\ w \notin Readers
    BY ProcsAssumption DEF Procs
  <1>b. \A x \in WriterPlaces \cup {"idle"} :
          pc' = [pc EXCEPT ![w] = x] =>
            /\ pc' \in [Procs -> {"idle"} \cup ReaderPlaces \cup WriterPlaces]
            /\ \A r \in Readers : pc'[r] \in {"idle"} \cup ReaderPlaces
            /\ \A q \in Writers : pc'[q] \in {"idle"} \cup WriterPlaces
            /\ \A q \in Writers : q # w => pc'[q] = pc[q]
            /\ pc'[w] = x
    BY <1>a, ProcsAssumption DEF Procs
  <1>c. /\ "idle" \notin WriterPlaces
        /\ WriterPlaces = {"w_down", "w_lock", "w_header", "w_store", "w_copy", "w_move",
                           "w_wrap", "w_up", "w_giveback"}
    BY DEF WriterPlaces
  <1>d. /\ count[w] \in Nat /\ AtMostElem(count[w]) \in Nat
        /\ AtMostElem(count[w]) <= count[w]
    BY <1>a, AtMostElemType
  <1>1. CASE WBegin(w)
    <2>1. PICK n \in WriteCounts, m \in Msgs :
             /\ count' = [count EXCEPT ![w] = n]
             /\ buf' = [buf EXCEPT ![w] = [i \in 1..n |-> m]]
      BY <1>1 DEF WBegin
    <2>2. n \in Nat /\ [i \in 1..n |-> m] \in Seq(Int) /\ Len([i \in 1..n |-> m]) = n
      <3>1. n \in Nat /\ [i \in 1..n |-> m] \in [1..n -> Int]
        BY DataAssumption
      <3>2. \A s \in [1..n -> Int] : s \in Seq(Int) /\ Len(s) = n
        BY <3>1, TuplesAreSequences
      <3> QED BY <3>1, <3>2
    <2>3. count' \in [Procs -> Nat] /\ buf' \in [Procs -> Seq(Int)]
      BY <1>a, <2>1, <2>2
    <2>4. \A x \in Writers : pc'[x] \in WriterPlaces => Len(buf'[x]) = count'[x]
      BY <1>1, <1>a, <1>b, <1>c, <2>1, <2>2 DEF WBegin, Procs
    <2> QED BY <1>1, <1>a, <1>b, <1>c, <2>3, <2>4 DEF WBegin
  <1>2. CASE WDown(w)
    BY <1>2, <1>a, <1>b, <1>c DEF WDown
  <1>3. CASE WDownSignal(w)
    <2>1. count' \in [Procs -> Nat] /\ buf' \in [Procs -> Seq(Int)]
      BY <1>3, <1>a DEF WDownSignal
    <2>2. \A x \in Writers : pc'[x] \in WriterPlaces => Len(buf'[x]) = count'[x]
      BY <1>3, <1>a, <1>b, <1>c DEF WDownSignal, Procs
    <2> QED BY <1>3, <1>a, <1>b, <1>c, <2>1, <2>2 DEF WDownSignal
  <1>4. CASE WLock(w)
    BY <1>4, <1>a, <1>b, <1>c DEF WLock
  <1>5. CASE WLockSignal(w)
    BY <1>5, <1>a, <1>b, <1>c DEF WLockSignal
  <1>6. CASE WHeader(w)
    BY <1>6, <1>a, <1>b, <1>c, SizesAssumption DEF WHeader
  <1>7. CASE WStore(w)
    <2>1. circleBuffer' \in [0..Cap-1 -> Int]
      <3>1. /\ circleBuffer \in [0..Cap-1 -> Int]
            /\ store_len[w] \in Int
            /\ AtMostElem(count[w]) \in Int
        BY <1>d
      <3>2. circleBuffer' = StoreAt(circleBuffer, store_len[w], AtMostElem(count[w]))
        BY <1>7 DEF WStore
      <3> HIDE DEF TypeOK, MessageKept
      <3> QED BY <3>1, <3>2, StoreKeepsBlock
    <2> QED BY <1>7, <1>a, <1>b, <1>c, <2>1 DEF WStore
  <1>8. CASE WCopy(w)
    <2>1. buf[w] \in Seq(Int) /\ Len(buf[w]) >= AtMostElem(count[w])
      BY <1>8, <1>a, <1>c, <1>d DEF WCopy
    <2>2. circleBuffer' \in [0..Cap-1 -> Int]
      <3>1. circleBuffer' = CopyIn(circleBuffer, end, AtMostElem(count[w]),
                                   AtMostElem(count[w]), buf[w])
        BY <1>8 DEF WCopy
      <3>2. /\ circleBuffer \in [0..Cap-1 -> Int]
            /\ end \in Int
            /\ AtMostElem(count[w]) \in 0..AtMostElem(count[w])
        BY <1>d
      <3> HIDE DEF TypeOK, MessageKept
      <3> QED BY <1>d, <2>1, <3>1, <3>2, CopyKeepsBlock
    <2> QED BY <1>8, <1>a, <1>b, <1>c, <1>d, <2>2 DEF WCopy
  <1>9. CASE WCopyFails(w)
    <2>1. buf[w] \in Seq(Int) /\ Len(buf[w]) >= AtMostElem(count[w])
      BY <1>9, <1>a, <1>c, <1>d DEF WCopyFails
    <2>2. PICK k \in 0..AtMostElem(count[w])-1 :
             circleBuffer' = CopyIn(circleBuffer, end, AtMostElem(count[w]), k, buf[w])
      BY <1>9 DEF WCopyFails
    <2>3. k \in 0..AtMostElem(count[w])
      BY <1>d
    <2>4. circleBuffer' \in [0..Cap-1 -> Int]
      <3>1. circleBuffer \in [0..Cap-1 -> Int] /\ end \in Int
        OBVIOUS
      <3> HIDE DEF TypeOK, MessageKept
      <3> QED BY <1>d, <2>1, <2>2, <2>3, <3>1, CopyKeepsBlock
    <2> QED BY <1>9, <1>a, <1>b, <1>c, <2>4 DEF WCopyFails
  <1>10. CASE WMove(w)
    BY <1>10, <1>a, <1>b, <1>c, SizesAssumption DEF WMove
  <1>11. CASE WWrap(w)
    BY <1>11, <1>a, <1>b, <1>c, SizesAssumption DEF WWrap
  <1>12. CASE WUp(w)
    <2>1. count' \in [Procs -> Nat] /\ buf' \in [Procs -> Seq(Int)]
      BY <1>12, <1>a DEF WUp
    <2>2. \A x \in Writers : pc'[x] \in WriterPlaces => Len(buf'[x]) = count'[x]
      BY <1>12, <1>a, <1>b, <1>c DEF WUp, Procs
    <2> QED BY <1>12, <1>a, <1>b, <1>c, <2>1, <2>2 DEF WUp
  <1>13. CASE WGiveBack(w)
    <2>1. count' \in [Procs -> Nat] /\ buf' \in [Procs -> Seq(Int)]
      BY <1>13, <1>a DEF WGiveBack
    <2>2. \A x \in Writers : pc'[x] \in WriterPlaces => Len(buf'[x]) = count'[x]
      BY <1>13, <1>a, <1>b, <1>c DEF WGiveBack, Procs
    <2> QED BY <1>13, <1>a, <1>b, <1>c, <2>1, <2>2 DEF WGiveBack
  <1> QED BY <1>1, <1>2, <1>3, <1>4, <1>5, <1>6, <1>7, <1>8, <1>9, <1>10, <1>11, <1>12, <1>13
       DEF WriteStep, WriteFault

LEMMA TypedStep == Typed /\ [Next]_vars => Typed'
  <1> SUFFICES ASSUME Typed, [Next]_vars PROVE Typed'
    OBVIOUS
  <1>1. CASE Next
    BY <1>1, ReadTyped, WriteTyped DEF Next
  <1>2. CASE UNCHANGED vars
    BY <1>2 DEF vars, Typed, TypeOK, MessageKept
  <1> QED BY <1>1, <1>2

(* copy_from_user never reads past the writer's message, faults included.  *)
THEOREM Typing == Spec => []Typed
  BY TypedInit, TypedStep, PTL DEF Spec

(* Every variable keeps its type for all parameters, faults included: the  *)
(* semaphores and the pointers never go below zero.                        *)
THEOREM FifoTypes == Spec => []TypeOK
  <1>1. Typed => TypeOK
    BY DEF Typed
  <1> QED BY <1>1, Typing, PTL
-----------------------------------------------------------------------------
(* Mutual exclusion *)

LEMMA MutexStep == Typed /\ MutualExclusion /\ [Next]_vars => MutualExclusion'
  <1> SUFFICES ASSUME Typed, MutualExclusion, [Next]_vars
               PROVE  MutualExclusion'
    OBVIOUS
  <1> USE ProcsAssumption
      DEF Typed, TypeOK, MutualExclusion, CriticalPlaces, Procs, Goto
  <1>1. ASSUME NEW r \in Readers, RBegin(r) \/ ReadStep(r) \/ ReadFault(r)
        PROVE  MutualExclusion'
    <2>1. CASE RBegin(r)
      BY <2>1 DEF RBegin
    <2>2. CASE RDown(r)
      BY <2>2 DEF RDown
    <2>3. CASE RDownSignal(r)
      BY <2>3 DEF RDownSignal
    <2>4. CASE RLock(r)
      BY <2>4 DEF RLock
    <2>5. CASE RLockSignal(r)
      BY <2>5 DEF RLockSignal
    <2>6. CASE RCopy(r)
      BY <2>6 DEF RCopy
    <2>7. CASE RCopyFails(r)
      BY <2>7 DEF RCopyFails
    <2>8. CASE RMove(r)
      BY <2>8 DEF RMove
    <2>9. CASE RWrap(r)
      BY <2>9 DEF RWrap
    <2>10. CASE RUp(r)
      BY <2>10 DEF RUp
    <2>11. CASE RGiveBack(r)
      BY <2>11 DEF RGiveBack
    <2> QED BY <1>1, <2>1, <2>2, <2>3, <2>4, <2>5, <2>6, <2>7, <2>8, <2>9, <2>10, <2>11
         DEF ReadStep, ReadFault
  <1>2. ASSUME NEW w \in Writers, WBegin(w) \/ WriteStep(w) \/ WriteFault(w)
        PROVE  MutualExclusion'
    <2>1. CASE WBegin(w)
      BY <2>1 DEF WBegin
    <2>2. CASE WDown(w)
      BY <2>2 DEF WDown
    <2>3. CASE WDownSignal(w)
      BY <2>3 DEF WDownSignal
    <2>4. CASE WLock(w)
      BY <2>4 DEF WLock
    <2>5. CASE WLockSignal(w)
      BY <2>5 DEF WLockSignal
    <2>6. CASE WHeader(w)
      BY <2>6 DEF WHeader
    <2>7. CASE WStore(w)
      BY <2>7 DEF WStore
    <2>8. CASE WCopy(w)
      BY <2>8 DEF WCopy
    <2>9. CASE WCopyFails(w)
      BY <2>9 DEF WCopyFails
    <2>10. CASE WMove(w)
      BY <2>10 DEF WMove
    <2>11. CASE WWrap(w)
      BY <2>11 DEF WWrap
    <2>12. CASE WUp(w)
      BY <2>12 DEF WUp
    <2>13. CASE WGiveBack(w)
      BY <2>13 DEF WGiveBack
    <2> QED BY <1>2, <2>1, <2>2, <2>3, <2>4, <2>5, <2>6, <2>7, <2>8, <2>9, <2>10, <2>11, <2>12, <2>13
         DEF WriteStep, WriteFault
  <1>3. CASE UNCHANGED vars
    BY <1>3 DEF vars
  <1> QED BY <1>1, <1>2, <1>3 DEF Next

(* The mutex is held exactly by the process between lock and unlock, so    *)
(* that two processes never move the pointers at once.                     *)
THEOREM Mutex == Spec => []MutualExclusion
  <1>1. Init => MutualExclusion
    BY ProcsAssumption DEF Init, MutualExclusion, CriticalPlaces
  <1> QED BY <1>1, MutexStep, Typing, PTL DEF Spec

-----------------------------------------------------------------------------
(* Tickets *)

One(place, places) == IF place \in places THEN 1 ELSE 0

(* A process that moves from one place to another takes itself out of the  *)
(* sets it leaves and adds itself to those it enters.                      *)
LEMMA HoldingMoves ==
    ASSUME TypeOK, NEW p \in Procs, NEW CONSTANT place, NEW CONSTANT places,
           pc' = [pc EXCEPT ![p] = place]
    PROVE  /\ Cardinality(Holding(places)) \in Nat
           /\ Cardinality(Holding(places))' =
                Cardinality(Holding(places)) + One(place, places) - One(pc[p], places)
  <1> DEFINE H  == Holding(places)
             H1 == Holding(places)'
             Others == H \ {p}
  <1>1. IsFiniteSet(H) /\ IsFiniteSet(Others)
    <2>1. H \subseteq Procs /\ Others \subseteq Procs
      BY DEF Holding
    <2> QED BY <2>1, ProcsAssumption, FS_Subset
  <1>2. Cardinality(H) \in Nat /\ Cardinality(Others) \in Nat
    BY <1>1, FS_CardinalityType
  <1>3. \A q \in Procs : q # p => pc'[q] = pc[q]
    BY DEF TypeOK
  <1>4. pc'[p] = place
    BY DEF TypeOK
  <1>5. p \notin Others
    OBVIOUS
  <1>6. Cardinality(H) = Cardinality(Others) + One(pc[p], places)
    <2>1. CASE pc[p] \in places
      <3>1. H = Others \cup {p}
        BY <2>1 DEF Holding
      <3> QED BY <1>1, <1>2, <1>5, <2>1, <3>1, FS_AddElement DEF One
    <2>2. CASE pc[p] \notin places
      <3>1. H = Others
        BY <2>2 DEF Holding
      <3> QED BY <1>2, <2>2, <3>1 DEF One
    <2> QED BY <2>1, <2>2
  <1>7. Cardinality(H1) = Cardinality(Others) + One(place, places)
    <2>1. CASE place \in places
      <3>1. H1 = Others \cup {p}
        BY <1>3, <1>4, <2>1 DEF Holding
      <3> QED BY <1>1, <1>2, <1>5, <2>1, <3>1, FS_AddElement DEF One
    <2>2. CASE place \notin places
      <3>1. H1 = Others
        BY <1>3, <1>4, <2>2 DEF Holding
      <3> QED BY <1>2, <2>2, <3>1 DEF One
    <2> QED BY <2>1, <2>2
  <1>8. Cardinality(Holding(places))' = Cardinality(H1)
    OBVIOUS
  <1> QED BY <1>2, <1>6, <1>7, <1>8 DEF One

(* The number of filled and of free elements are natural numbers, and a    *)
(* process counted among those that hold a ticket makes the count positive.*)
LEMMA TicketsNat ==
    ASSUME TypeOK
    PROVE  /\ Filled \in Nat
           /\ Free \in Nat
           /\ \A p \in Procs : pc[p] \in OccupyingPlaces => Filled >= 1
           /\ \A p \in Procs : pc[p] \in ReservingPlaces => Free >= 1
  <1>1. ASSUME NEW CONSTANT places
        PROVE  /\ Cardinality(Holding(places)) \in Nat
               /\ \A p \in Procs : pc[p] \in places => Cardinality(Holding(places)) >= 1
    <2>1. IsFiniteSet(Holding(places))
      <3>1. Holding(places) \subseteq Procs
        BY DEF Holding
      <3> QED BY <3>1, ProcsAssumption, FS_Subset
    <2>2. Cardinality(Holding(places)) \in Nat
      BY <2>1, FS_CardinalityType
    <2>3. ASSUME NEW p \in Procs, pc[p] \in places
          PROVE  Cardinality(Holding(places)) >= 1
      <3>1. p \in Holding(places)
        BY <2>3 DEF Holding
      <3>2. Cardinality(Holding(places)) # 0
        BY <2>1, <3>1, FS_EmptySet
      <3> QED BY <2>2, <3>2
    <2> QED BY <2>2, <2>3
  <1>2. /\ Cardinality(Holding(OccupyingPlaces)) \in Nat
        /\ \A p \in Procs : pc[p] \in OccupyingPlaces =>
              Cardinality(Holding(OccupyingPlaces)) >= 1
    BY <1>1
  <1>3. /\ Cardinality(Holding(ReservingPlaces)) \in Nat
        /\ \A p \in Procs : pc[p] \in ReservingPlaces =>
              Cardinality(Holding(ReservingPlaces)) >= 1
    BY <1>1
  <1> QED BY <1>2, <1>3 DEF Filled, Free, TypeOK

(* The numbers of filled and of free elements after a move.                *)
LEMMA TicketsMove ==
    ASSUME TypeOK, NEW p \in Procs, NEW CONSTANT from, NEW CONSTANT place,
           Goto(p, from, place), FULL' \in Nat, EMPTY' \in Nat
    PROVE  /\ Filled' = Filled + (FULL' - FULL)
                 + One(place, OccupyingPlaces) - One(from, OccupyingPlaces)
           /\ Free' = Free + (EMPTY' - EMPTY)
                 + One(place, ReservingPlaces) - One(from, ReservingPlaces)
  <1> DEFINE occ == Cardinality(Holding(OccupyingPlaces))
             res == Cardinality(Holding(ReservingPlaces))
  <1>0. pc[p] = from /\ pc' = [pc EXCEPT ![p] = place]
    BY DEF Goto
  <1>1. /\ occ \in Nat
        /\ occ' = occ + One(place, OccupyingPlaces) - One(from, OccupyingPlaces)
    BY <1>0, HoldingMoves
  <1>2. /\ res \in Nat
        /\ res' = res + One(place, ReservingPlaces) - One(from, ReservingPlaces)
    BY <1>0, HoldingMoves
  <1>3. /\ One(place, OccupyingPlaces) \in Int /\ One(from, OccupyingPlaces) \in Int
        /\ One(place, ReservingPlaces) \in Int /\ One(from, ReservingPlaces) \in Int
    BY DEF One
  <1>4. /\ Filled = FULL + occ /\ Filled' = FULL' + occ'
        /\ Free = EMPTY + res /\ Free' = EMPTY' + res'
    BY DEF Filled, Free
  <1>5. FULL \in Nat /\ EMPTY \in Nat
    BY DEF TypeOK
  <1> HIDE DEF occ, res
  <1> QED BY <1>1, <1>2, <1>3, <1>4, <1>5

(* Only the steps that release the mutex after a copy change the numbers:  *)
(* a read turns a filled element into a free one, a write the converse.    *)
LEMMA ReadTickets ==
    ASSUME TypeOK, NEW r \in Readers, RBegin(r) \/ ReadStep(r) \/ ReadFault(r)
    PROVE  /\ RWrap(r) => Filled' = Filled - 1 /\ Free' = Free + 1
           /\ ~RWrap(r) => Filled' = Filled /\ Free' = Free
  <1> USE DEF ring, locals
  <1>a. r \in Procs
    BY DEF Procs
  <1>b. Filled \in Nat /\ Free \in Nat /\ FULL \in Nat /\ EMPTY \in Nat
    BY TicketsNat DEF TypeOK
  <1>1. ASSUME RBegin(r)
        PROVE  Filled' = Filled /\ Free' = Free /\ pc[r] # "r_wrap"
    <2>1. /\ Goto(r, "idle", "r_down")
          /\ FULL' = FULL /\ EMPTY' = EMPTY
      BY <1>1 DEF RBegin
    <2>2. FULL' \in Nat /\ EMPTY' \in Nat
      BY <1>b, <1>1, <2>1 DEF RBegin
    <2>3. /\ Filled' = Filled + (FULL' - FULL)
                + One("r_down", OccupyingPlaces) - One("idle", OccupyingPlaces)
          /\ Free' = Free + (EMPTY' - EMPTY)
                + One("r_down", ReservingPlaces) - One("idle", ReservingPlaces)
      BY <1>a, <2>1, <2>2, TicketsMove
    <2> QED BY <1>b, <2>1, <2>3
            DEF Goto, One, OccupyingPlaces, ReservingPlaces
  <1>2. ASSUME RDown(r)
        PROVE  Filled' = Filled /\ Free' = Free /\ pc[r] # "r_wrap"
    <2>1. /\ Goto(r, "r_down", "r_lock")
          /\ FULL' = FULL - 1 /\ EMPTY' = EMPTY
      BY <1>2 DEF RDown
    <2>2. FULL' \in Nat /\ EMPTY' \in Nat
      BY <1>b, <1>2, <2>1 DEF RDown
    <2>3. /\ Filled' = Filled + (FULL' - FULL)
                + One("r_lock", OccupyingPlaces) - One("r_down", OccupyingPlaces)
          /\ Free' = Free + (EMPTY' - EMPTY)
                + One("r_lock", ReservingPlaces) - One("r_down", ReservingPlaces)
      BY <1>a, <2>1, <2>2, TicketsMove
    <2> QED BY <1>b, <2>1, <2>3
            DEF Goto, One, OccupyingPlaces, ReservingPlaces
  <1>3. ASSUME RDownSignal(r)
        PROVE  Filled' = Filled /\ Free' = Free /\ pc[r] # "r_wrap"
    <2>1. /\ Goto(r, "r_down", "idle")
          /\ FULL' = FULL /\ EMPTY' = EMPTY
      BY <1>3 DEF RDownSignal
    <2>2. FULL' \in Nat /\ EMPTY' \in Nat
      BY <1>b, <1>3, <2>1 DEF RDownSignal
    <2>3. /\ Filled' = Filled + (FULL' - FULL)
                + One("idle", OccupyingPlaces) - One("r_down", OccupyingPlaces)
          /\ Free' = Free + (EMPTY' - EMPTY)
                + One("idle", ReservingPlaces) - One("r_down", ReservingPlaces)
      BY <1>a, <2>1, <2>2, TicketsMove
    <2> QED BY <1>b, <2>1, <2>3
            DEF Goto, One, OccupyingPlaces, ReservingPlaces
  <1>4. ASSUME RLock(r)
        PROVE  Filled' = Filled /\ Free' = Free /\ pc[r] # "r_wrap"
    <2>1. /\ Goto(r, "r_lock", "r_copy")
          /\ FULL' = FULL /\ EMPTY' = EMPTY
      BY <1>4 DEF RLock
    <2>2. FULL' \in Nat /\ EMPTY' \in Nat
      BY <1>b, <1>4, <2>1 DEF RLock
    <2>3. /\ Filled' = Filled + (FULL' - FULL)
                + One("r_copy", OccupyingPlaces) - One("r_lock", OccupyingPlaces)
          /\ Free' = Free + (EMPTY' - EMPTY)
                + One("r_copy", ReservingPlaces) - One("r_lock", ReservingPlaces)
      BY <1>a, <2>1, <2>2, TicketsMove
    <2> QED BY <1>b, <2>1, <2>3
            DEF Goto, One, OccupyingPlaces, ReservingPlaces
  <1>5. ASSUME RLockSignal(r)
        PROVE  Filled' = Filled /\ Free' = Free /\ pc[r] # "r_wrap"
    <2>1. /\ Goto(r, "r_lock", "r_giveback")
          /\ FULL' = FULL /\ EMPTY' = EMPTY
      BY <1>5 DEF RLockSignal
    <2>2. FULL' \in Nat /\ EMPTY' \in Nat
      BY <1>b, <1>5, <2>1 DEF RLockSignal
    <2>3. /\ Filled' = Filled + (FULL' - FULL)
                + One("r_giveback", OccupyingPlaces) - One("r_lock", OccupyingPlaces)
          /\ Free' = Free + (EMPTY' - EMPTY)
                + One("r_giveback", ReservingPlaces) - One("r_lock", ReservingPlaces)
      BY <1>a, <2>1, <2>2, TicketsMove
    <2> QED BY <1>b, <2>1, <2>3
            DEF Goto, One, OccupyingPlaces, ReservingPlaces
  <1>6. ASSUME RCopy(r)
        PROVE  Filled' = Filled /\ Free' = Free /\ pc[r] # "r_wrap"
    <2>1. /\ Goto(r, "r_copy", "r_move")
          /\ FULL' = FULL /\ EMPTY' = EMPTY
      BY <1>6 DEF RCopy
    <2>2. FULL' \in Nat /\ EMPTY' \in Nat
      BY <1>b, <1>6, <2>1 DEF RCopy
    <2>3. /\ Filled' = Filled + (FULL' - FULL)
                + One("r_move", OccupyingPlaces) - One("r_copy", OccupyingPlaces)
          /\ Free' = Free + (EMPTY' - EMPTY)
                + One("r_move", ReservingPlaces) - One("r_copy", ReservingPlaces)
      BY <1>a, <2>1, <2>2, TicketsMove
    <2> QED BY <1>b, <2>1, <2>3
            DEF Goto, One, OccupyingPlaces, ReservingPlaces
  <1>7. ASSUME RCopyFails(r)
        PROVE  Filled' = Filled /\ Free' = Free /\ pc[r] # "r_wrap"
    <2>1. /\ Goto(r, "r_copy", "r_giveback")
          /\ FULL' = FULL /\ EMPTY' = EMPTY
      BY <1>7 DEF RCopyFails
    <2>2. FULL' \in Nat /\ EMPTY' \in Nat
      BY <1>b, <1>7, <2>1 DEF RCopyFails
    <2>3. /\ Filled' = Filled + (FULL' - FULL)
                + One("r_giveback", OccupyingPlaces) - One("r_copy", OccupyingPlaces)
          /\ Free' = Free + (EMPTY' - EMPTY)
                + One("r_giveback", ReservingPlaces) - One("r_copy", ReservingPlaces)
      BY <1>a, <2>1, <2>2, TicketsMove
    <2> QED BY <1>b, <2>1, <2>3
            DEF Goto, One, OccupyingPlaces, ReservingPlaces
  <1>8. ASSUME RMove(r)
        PROVE  Filled' = Filled /\ Free' = Free /\ pc[r] # "r_wrap"
    <2>1. /\ Goto(r, "r_move", "r_wrap")
          /\ FULL' = FULL /\ EMPTY' = EMPTY
      BY <1>8 DEF RMove
    <2>2. FULL' \in Nat /\ EMPTY' \in Nat
      BY <1>b, <1>8, <2>1 DEF RMove
    <2>3. /\ Filled' = Filled + (FULL' - FULL)
                + One("r_wrap", OccupyingPlaces) - One("r_move", OccupyingPlaces)
          /\ Free' = Free + (EMPTY' - EMPTY)
                + One("r_wrap", ReservingPlaces) - One("r_move", ReservingPlaces)
      BY <1>a, <2>1, <2>2, TicketsMove
    <2> QED BY <1>b, <2>1, <2>3
            DEF Goto, One, OccupyingPlaces, ReservingPlaces
  <1>9. ASSUME RWrap(r)
        PROVE  Filled' = Filled - 1 /\ Free' = Free + 1
    <2>1. /\ Goto(r, "r_wrap", "r_up")
          /\ FULL' = FULL /\ EMPTY' = EMPTY
      BY <1>9 DEF RWrap
    <2>2. FULL' \in Nat /\ EMPTY' \in Nat
      BY <1>b, <1>9, <2>1 DEF RWrap
    <2>3. /\ Filled' = Filled + (FULL' - FULL)
                + One("r_up", OccupyingPlaces) - One("r_wrap", OccupyingPlaces)
          /\ Free' = Free + (EMPTY' - EMPTY)
                + One("r_up", ReservingPlaces) - One("r_wrap", ReservingPlaces)
      BY <1>a, <2>1, <2>2, TicketsMove
    <2> QED BY <1>b, <2>1, <2>3
            DEF Goto, One, OccupyingPlaces, ReservingPlaces
  <1>10. ASSUME RUp(r)
        PROVE  Filled' = Filled /\ Free' = Free /\ pc[r] # "r_wrap"
    <2>1. /\ Goto(r, "r_up", "idle")
          /\ FULL' = FULL /\ EMPTY' = EMPTY + 1
      BY <1>10 DEF RUp
    <2>2. FULL' \in Nat /\ EMPTY' \in Nat
      BY <1>b, <1>10, <2>1 DEF RUp
    <2>3. /\ Filled' = Filled + (FULL' - FULL)
                + One("idle", OccupyingPlaces) - One("r_up", OccupyingPlaces)
          /\ Free' = Free + (EMPTY' - EMPTY)
                + One("idle", ReservingPlaces) - One("r_up", ReservingPlaces)
      BY <1>a, <2>1, <2>2, TicketsMove
    <2> QED BY <1>b, <2>1, <2>3
            DEF Goto, One, OccupyingPlaces, ReservingPlaces
  <1>11. ASSUME RGiveBack(r)
        PROVE  Filled' = Filled /\ Free' = Free /\ pc[r] # "r_wrap"
    <2>1. /\ Goto(r, "r_giveback", "idle")
          /\ FULL' = FULL + 1 /\ EMPTY' = EMPTY
      BY <1>11 DEF RGiveBack
    <2>2. FULL' \in Nat /\ EMPTY' \in Nat
      BY <1>b, <1>11, <2>1 DEF RGiveBack
    <2>3. /\ Filled' = Filled + (FULL' - FULL)
                + One("idle", OccupyingPlaces) - One("r_giveback", OccupyingPlaces)
          /\ Free' = Free + (EMPTY' - EMPTY)
                + One("idle", ReservingPlaces) - One("r_giveback", ReservingPlaces)
      BY <1>a, <2>1, <2>2, TicketsMove
    <2> QED BY <1>b, <2>1, <2>3
            DEF Goto, One, OccupyingPlaces, ReservingPlaces
  <1> QED BY <1>1, <1>2, <1>3, <1>4, <1>5, <1>6, <1>7, <1>8, <1>9, <1>10, <1>11
       DEF ReadStep, ReadFault, RWrap

LEMMA WriteTickets ==
    ASSUME TypeOK, NEW w \in Writers, WBegin(w) \/ WriteStep(w) \/ WriteFault(w)
    PROVE  /\ WWrap(w) => Filled' = Filled + 1 /\ Free' = Free - 1
           /\ ~WWrap(w) => Filled' = Filled /\ Free' = Free
  <1> USE DEF ring, locals
  <1>a. w \in Procs
    BY DEF Procs
  <1>b. Filled \in Nat /\ Free \in Nat /\ FULL \in Nat /\ EMPTY \in Nat
    BY TicketsNat DEF TypeOK
  <1>1. ASSUME WBegin(w)
        PROVE  Filled' = Filled /\ Free' = Free /\ pc[w] # "w_wrap"
    <2>1. /\ Goto(w, "idle", "w_down")
          /\ FULL' = FULL /\ EMPTY' = EMPTY
      BY <1>1 DEF WBegin
    <2>2. FULL' \in Nat /\ EMPTY' \in Nat
      BY <1>b, <1>1, <2>1 DEF WBegin
    <2>3. /\ Filled' = Filled + (FULL' - FULL)
                + One("w_down", OccupyingPlaces) - One("idle", OccupyingPlaces)
          /\ Free' = Free + (EMPTY' - EMPTY)
                + One("w_down", ReservingPlaces) - One("idle", ReservingPlaces)
      BY <1>a, <2>1, <2>2, TicketsMove
    <2> QED BY <1>b, <2>1, <2>3
            DEF Goto, One, OccupyingPlaces, ReservingPlaces
  <1>2. ASSUME WDown(w)
        PROVE  Filled' = Filled /\ Free' = Free /\ pc[w] # "w_wrap"
    <2>1. /\ Goto(w, "w_down", "w_lock")
          /\ FULL' = FULL /\ EMPTY' = EMPTY - 1
      BY <1>2 DEF WDown
    <2>2. FULL' \in Nat /\ EMPTY' \in Nat
      BY <1>b, <1>2, <2>1 DEF WDown
    <2>3. /\ Filled' = Filled + (FULL' - FULL)
                + One("w_lock", OccupyingPlaces) - One("w_down", OccupyingPlaces)
          /\ Free' = Free + (EMPTY' - EMPTY)
                + One("w_lock", ReservingPlaces) - One("w_down", ReservingPlaces)
      BY <1>a, <2>1, <2>2, TicketsMove
    <2> QED BY <1>b, <2>1, <2>3
            DEF Goto, One, OccupyingPlaces, ReservingPlaces
  <1>3. ASSUME WDownSignal(w)
        PROVE  Filled' = Filled /\ Free' = Free /\ pc[w] # "w_wrap"
    <2>1. /\ Goto(w, "w_down", "idle")
          /\ FULL' = FULL /\ EMPTY' = EMPTY
      BY <1>3 DEF WDownSignal
    <2>2. FULL' \in Nat /\ EMPTY' \in Nat
      BY <1>b, <1>3, <2>1 DEF WDownSignal
    <2>3. /\ Filled' = Filled + (FULL' - FULL)
                + One("idle", OccupyingPlaces) - One("w_down", OccupyingPlaces)
          /\ Free' = Free + (EMPTY' - EMPTY)
                + One("idle", ReservingPlaces) - One("w_down", ReservingPlaces)
      BY <1>a, <2>1, <2>2, TicketsMove
    <2> QED BY <1>b, <2>1, <2>3
            DEF Goto, One, OccupyingPlaces, ReservingPlaces
  <1>4. ASSUME WLock(w)
        PROVE  Filled' = Filled /\ Free' = Free /\ pc[w] # "w_wrap"
    <2>1. /\ Goto(w, "w_lock", "w_header")
          /\ FULL' = FULL /\ EMPTY' = EMPTY
      BY <1>4 DEF WLock
    <2>2. FULL' \in Nat /\ EMPTY' \in Nat
      BY <1>b, <1>4, <2>1 DEF WLock
    <2>3. /\ Filled' = Filled + (FULL' - FULL)
                + One("w_header", OccupyingPlaces) - One("w_lock", OccupyingPlaces)
          /\ Free' = Free + (EMPTY' - EMPTY)
                + One("w_header", ReservingPlaces) - One("w_lock", ReservingPlaces)
      BY <1>a, <2>1, <2>2, TicketsMove
    <2> QED BY <1>b, <2>1, <2>3
            DEF Goto, One, OccupyingPlaces, ReservingPlaces
  <1>5. ASSUME WLockSignal(w)
        PROVE  Filled' = Filled /\ Free' = Free /\ pc[w] # "w_wrap"
    <2>1. /\ Goto(w, "w_lock", "w_giveback")
          /\ FULL' = FULL /\ EMPTY' = EMPTY
      BY <1>5 DEF WLockSignal
    <2>2. FULL' \in Nat /\ EMPTY' \in Nat
      BY <1>b, <1>5, <2>1 DEF WLockSignal
    <2>3. /\ Filled' = Filled + (FULL' - FULL)
                + One("w_giveback", OccupyingPlaces) - One("w_lock", OccupyingPlaces)
          /\ Free' = Free + (EMPTY' - EMPTY)
                + One("w_giveback", ReservingPlaces) - One("w_lock", ReservingPlaces)
      BY <1>a, <2>1, <2>2, TicketsMove
    <2> QED BY <1>b, <2>1, <2>3
            DEF Goto, One, OccupyingPlaces, ReservingPlaces
  <1>6. ASSUME WHeader(w)
        PROVE  Filled' = Filled /\ Free' = Free /\ pc[w] # "w_wrap"
    <2>1. /\ Goto(w, "w_header", "w_store")
          /\ FULL' = FULL /\ EMPTY' = EMPTY
      BY <1>6 DEF WHeader
    <2>2. FULL' \in Nat /\ EMPTY' \in Nat
      BY <1>b, <1>6, <2>1 DEF WHeader
    <2>3. /\ Filled' = Filled + (FULL' - FULL)
                + One("w_store", OccupyingPlaces) - One("w_header", OccupyingPlaces)
          /\ Free' = Free + (EMPTY' - EMPTY)
                + One("w_store", ReservingPlaces) - One("w_header", ReservingPlaces)
      BY <1>a, <2>1, <2>2, TicketsMove
    <2> QED BY <1>b, <2>1, <2>3
            DEF Goto, One, OccupyingPlaces, ReservingPlaces
  <1>7. ASSUME WStore(w)
        PROVE  Filled' = Filled /\ Free' = Free /\ pc[w] # "w_wrap"
    <2>1. /\ Goto(w, "w_store", "w_copy")
          /\ FULL' = FULL /\ EMPTY' = EMPTY
      BY <1>7 DEF WStore
    <2>2. FULL' \in Nat /\ EMPTY' \in Nat
      BY <1>b, <1>7, <2>1 DEF WStore
    <2>3. /\ Filled' = Filled + (FULL' - FULL)
                + One("w_copy", OccupyingPlaces) - One("w_store", OccupyingPlaces)
          /\ Free' = Free + (EMPTY' - EMPTY)
                + One("w_copy", ReservingPlaces) - One("w_store", ReservingPlaces)
      BY <1>a, <2>1, <2>2, TicketsMove
    <2> QED BY <1>b, <2>1, <2>3
            DEF Goto, One, OccupyingPlaces, ReservingPlaces
  <1>8. ASSUME WCopy(w)
        PROVE  Filled' = Filled /\ Free' = Free /\ pc[w] # "w_wrap"
    <2>1. /\ Goto(w, "w_copy", "w_move")
          /\ FULL' = FULL /\ EMPTY' = EMPTY
      BY <1>8 DEF WCopy
    <2>2. FULL' \in Nat /\ EMPTY' \in Nat
      BY <1>b, <1>8, <2>1 DEF WCopy
    <2>3. /\ Filled' = Filled + (FULL' - FULL)
                + One("w_move", OccupyingPlaces) - One("w_copy", OccupyingPlaces)
          /\ Free' = Free + (EMPTY' - EMPTY)
                + One("w_move", ReservingPlaces) - One("w_copy", ReservingPlaces)
      BY <1>a, <2>1, <2>2, TicketsMove
    <2> QED BY <1>b, <2>1, <2>3
            DEF Goto, One, OccupyingPlaces, ReservingPlaces
  <1>9. ASSUME WCopyFails(w)
        PROVE  Filled' = Filled /\ Free' = Free /\ pc[w] # "w_wrap"
    <2>1. /\ Goto(w, "w_copy", "w_giveback")
          /\ FULL' = FULL /\ EMPTY' = EMPTY
      BY <1>9 DEF WCopyFails
    <2>2. FULL' \in Nat /\ EMPTY' \in Nat
      BY <1>b, <1>9, <2>1 DEF WCopyFails
    <2>3. /\ Filled' = Filled + (FULL' - FULL)
                + One("w_giveback", OccupyingPlaces) - One("w_copy", OccupyingPlaces)
          /\ Free' = Free + (EMPTY' - EMPTY)
                + One("w_giveback", ReservingPlaces) - One("w_copy", ReservingPlaces)
      BY <1>a, <2>1, <2>2, TicketsMove
    <2> QED BY <1>b, <2>1, <2>3
            DEF Goto, One, OccupyingPlaces, ReservingPlaces
  <1>10. ASSUME WMove(w)
        PROVE  Filled' = Filled /\ Free' = Free /\ pc[w] # "w_wrap"
    <2>1. /\ Goto(w, "w_move", "w_wrap")
          /\ FULL' = FULL /\ EMPTY' = EMPTY
      BY <1>10 DEF WMove
    <2>2. FULL' \in Nat /\ EMPTY' \in Nat
      BY <1>b, <1>10, <2>1 DEF WMove
    <2>3. /\ Filled' = Filled + (FULL' - FULL)
                + One("w_wrap", OccupyingPlaces) - One("w_move", OccupyingPlaces)
          /\ Free' = Free + (EMPTY' - EMPTY)
                + One("w_wrap", ReservingPlaces) - One("w_move", ReservingPlaces)
      BY <1>a, <2>1, <2>2, TicketsMove
    <2> QED BY <1>b, <2>1, <2>3
            DEF Goto, One, OccupyingPlaces, ReservingPlaces
  <1>11. ASSUME WWrap(w)
        PROVE  Filled' = Filled + 1 /\ Free' = Free - 1
    <2>1. /\ Goto(w, "w_wrap", "w_up")
          /\ FULL' = FULL /\ EMPTY' = EMPTY
      BY <1>11 DEF WWrap
    <2>2. FULL' \in Nat /\ EMPTY' \in Nat
      BY <1>b, <1>11, <2>1 DEF WWrap
    <2>3. /\ Filled' = Filled + (FULL' - FULL)
                + One("w_up", OccupyingPlaces) - One("w_wrap", OccupyingPlaces)
          /\ Free' = Free + (EMPTY' - EMPTY)
                + One("w_up", ReservingPlaces) - One("w_wrap", ReservingPlaces)
      BY <1>a, <2>1, <2>2, TicketsMove
    <2> QED BY <1>b, <2>1, <2>3
            DEF Goto, One, OccupyingPlaces, ReservingPlaces
  <1>12. ASSUME WUp(w)
        PROVE  Filled' = Filled /\ Free' = Free /\ pc[w] # "w_wrap"
    <2>1. /\ Goto(w, "w_up", "idle")
          /\ FULL' = FULL + 1 /\ EMPTY' = EMPTY
      BY <1>12 DEF WUp
    <2>2. FULL' \in Nat /\ EMPTY' \in Nat
      BY <1>b, <1>12, <2>1 DEF WUp
    <2>3. /\ Filled' = Filled + (FULL' - FULL)
                + One("idle", OccupyingPlaces) - One("w_up", OccupyingPlaces)
          /\ Free' = Free + (EMPTY' - EMPTY)
                + One("idle", ReservingPlaces) - One("w_up", ReservingPlaces)
      BY <1>a, <2>1, <2>2, TicketsMove
    <2> QED BY <1>b, <2>1, <2>3
            DEF Goto, One, OccupyingPlaces, ReservingPlaces
  <1>13. ASSUME WGiveBack(w)
        PROVE  Filled' = Filled /\ Free' = Free /\ pc[w] # "w_wrap"
    <2>1. /\ Goto(w, "w_giveback", "idle")
          /\ FULL' = FULL /\ EMPTY' = EMPTY + 1
      BY <1>13 DEF WGiveBack
    <2>2. FULL' \in Nat /\ EMPTY' \in Nat
      BY <1>b, <1>13, <2>1 DEF WGiveBack
    <2>3. /\ Filled' = Filled + (FULL' - FULL)
                + One("idle", OccupyingPlaces) - One("w_giveback", OccupyingPlaces)
          /\ Free' = Free + (EMPTY' - EMPTY)
                + One("idle", ReservingPlaces) - One("w_giveback", ReservingPlaces)
      BY <1>a, <2>1, <2>2, TicketsMove
    <2> QED BY <1>b, <2>1, <2>3
            DEF Goto, One, OccupyingPlaces, ReservingPlaces
  <1> QED BY <1>1, <1>2, <1>3, <1>4, <1>5, <1>6, <1>7, <1>8, <1>9, <1>10, <1>11, <1>12, <1>13
       DEF WriteStep, WriteFault, WWrap

LEMMA TicketsStep == Typed /\ TicketConservation /\ [Next]_vars => TicketConservation'
  <1> SUFFICES ASSUME Typed, TicketConservation, [Next]_vars
               PROVE  TicketConservation'
    OBVIOUS
  <1> USE DEF Typed
  <1>1. Filled \in Nat /\ Free \in Nat
    BY TicketsNat
  <1>2. ASSUME NEW r \in Readers, RBegin(r) \/ ReadStep(r) \/ ReadFault(r)
        PROVE  Filled' + Free' = Filled + Free
    BY <1>1, <1>2, ReadTickets
  <1>3. ASSUME NEW w \in Writers, WBegin(w) \/ WriteStep(w) \/ WriteFault(w)
        PROVE  Filled' + Free' = Filled + Free
    BY <1>1, <1>3, WriteTickets
  <1>4. CASE UNCHANGED vars
    BY <1>4 DEF vars, Filled, Free, Holding, TicketConservation
  <1> QED BY <1>2, <1>3, <1>4 DEF Next, TicketConservation

(* No path of scull_read or scull_write loses a ticket or mints one: the   *)
(* filled and the free elements always add up to the size of the ring.     *)
THEOREM Tickets == Spec => []TicketConservation
  <1>1. Init => TicketConservation
    <2> SUFFICES ASSUME Init PROVE TicketConservation
      OBVIOUS
    <2>1. /\ Holding(OccupyingPlaces) = {}
          /\ Holding(ReservingPlaces) = {}
      BY DEF Init, Holding, OccupyingPlaces, ReservingPlaces
    <2> QED BY <2>1, SizesAssumption, FS_EmptySet DEF Init, TicketConservation, Filled, Free
  <1> QED BY <1>1, TicketsStep, Typing, PTL DEF Spec
-----------------------------------------------------------------------------
(* Pointers *)

(* Where the process with the mutex stands, and how far it has moved the   *)
(* pointers from the element boundary it found them at.                    *)
HolderAt == IF mLock = Nobody THEN "free" ELSE pc[mLock]
StartAdvance == IF HolderAt = "r_wrap" THEN SlotSz ELSE 0
EndAdvance   == CASE HolderAt \in {"w_store", "w_copy", "w_move"} -> 1
                  [] HolderAt = "w_wrap" -> SlotSz
                  [] OTHER -> 0

(* start and end, less those advances, are the boundaries of elements s    *)
(* and e, and e follows s by the number of filled elements.                *)
RingAt(s, e) == /\ start = SlotSz * s + StartAdvance
                /\ end = SlotSz * e + EndAdvance
                /\ e = s + Filled \/ e = s + Filled - FifoSize
RingPosition == \E s, e \in 0..FifoSize-1 : RingAt(s, e)

RingInv == Typed /\ MutualExclusion /\ TicketConservation /\ RingPosition

(* Boundaries of elements within the block.                                *)
LEMMA SlotArithmetic ==
    ASSUME NEW s \in 0..FifoSize-1
    PROVE  /\ SlotSz * s \in Nat
           /\ SlotSz * (s+1) = SlotSz * s + SlotSz
           /\ SlotSz * s + SlotSz <= Cap
           /\ SlotSz * s + SlotSz = Cap <=> s + 1 = FifoSize
           /\ SlotSz * 0 = 0
  <1>1. \A m, a, b \in Nat : /\ m * a \in Nat
                             /\ m * (a+1) = m * a + m
                             /\ m * 0 = 0
                             /\ a <= b => m * a <= m * b
                             /\ m >= 1 /\ m * a = m * b => a = b
    OBVIOUS
  <1>2. s \in Nat /\ s+1 \in Nat /\ FifoSize \in Nat /\ s+1 <= FifoSize
    BY SizesAssumption
  <1>3. SlotSz \in Nat /\ SlotSz >= 1
    BY SizesPositive
  <1>4. SlotSz * s \in Nat /\ SlotSz * (s+1) = SlotSz * s + SlotSz /\ SlotSz * 0 = 0
    BY <1>1, <1>2, <1>3
  <1>5. SlotSz * (s+1) <= SlotSz * FifoSize
    BY <1>1, <1>2, <1>3
  <1>6. SlotSz * (s+1) = SlotSz * FifoSize => s+1 = FifoSize
    BY <1>1, <1>2, <1>3
  <1> QED BY <1>4, <1>5, <1>6 DEF Cap

(* Where the holder of the mutex stands before and after a move.           *)
LEMMA HolderMoves ==
    ASSUME TypeOK, MutualExclusion, MutualExclusion',
           NEW p \in Procs, NEW CONSTANT from, NEW CONSTANT place, Goto(p, from, place)
    PROVE  /\ from \in CriticalPlaces => HolderAt = from
           /\ place \in CriticalPlaces => HolderAt' = place
           /\ from \notin CriticalPlaces /\ place \notin CriticalPlaces /\ mLock' = mLock
                => HolderAt' = HolderAt
  <1>1. pc[p] = from /\ pc'[p] = place /\ (\A q \in Procs : q # p => pc'[q] = pc[q])
    BY DEF Goto, TypeOK
  <1>2. p # Nobody
    BY ProcsAssumption
  <1>3. from \in CriticalPlaces => HolderAt = from
    BY <1>1, <1>2 DEF MutualExclusion, HolderAt
  <1>4. place \in CriticalPlaces => HolderAt' = place
    BY <1>1, <1>2 DEF MutualExclusion, HolderAt
  <1>5. ASSUME from \notin CriticalPlaces, mLock' = mLock
        PROVE  HolderAt' = HolderAt
    <2>1. mLock # p
      BY <1>1, <1>5 DEF MutualExclusion
    <2>2. mLock \in Procs \cup {Nobody}
      BY DEF TypeOK
    <2> QED BY <1>1, <1>5, <2>1, <2>2 DEF HolderAt
  <1> QED BY <1>3, <1>4, <1>5

(* A step that leaves the pointers, the advances and the number of filled  *)
(* elements alone leaves the ring position alone.                          *)
LEMMA RingQuiet ==
    ASSUME NEW s, NEW e, RingAt(s, e),
           start' = start, end' = end, Filled' = Filled,
           StartAdvance' = StartAdvance, EndAdvance' = EndAdvance
    PROVE  RingAt(s, e)'
  BY DEF RingAt

LEMMA ReadRing ==
    ASSUME RingInv, Typed', MutualExclusion', TicketConservation',
           NEW r \in Readers, RBegin(r) \/ ReadStep(r) \/ ReadFault(r)
    PROVE  RingPosition'
  <1>a. PICK s \in 0..FifoSize-1, e \in 0..FifoSize-1 : RingAt(s, e)
    BY DEF RingInv, RingPosition
  <1>b. r \in Procs /\ TypeOK /\ MutualExclusion
    BY DEF Procs, RingInv, Typed
  <1>c. SUFFICES \E s1, e1 \in 0..FifoSize-1 : RingAt(s1, e1)'
    BY DEF RingPosition
  <1>d. RingAt(s, e)' => \E s1, e1 \in 0..FifoSize-1 : RingAt(s1, e1)'
    OBVIOUS
  <1>1. ASSUME RBegin(r)
        PROVE  \E s1, e1 \in 0..FifoSize-1 : RingAt(s1, e1)'
    <2>1. Goto(r, "idle", "r_down")
      BY <1>1 DEF RBegin
    <2>2. start' = start /\ end' = end
      BY <1>1 DEF RBegin, ring
    <2>3. Filled' = Filled
      BY <1>1, <1>b, <2>1, ReadTickets DEF ReadStep, ReadFault, RWrap, Goto
    <2>4. StartAdvance' = StartAdvance /\ EndAdvance' = EndAdvance
      <3>1. HolderAt' = HolderAt
        BY <1>1, <1>b, <2>1, HolderMoves DEF RBegin, CriticalPlaces
      <3> QED BY <3>1 DEF StartAdvance, EndAdvance
    <2> QED BY <1>a, <1>d, <2>2, <2>3, <2>4, RingQuiet
  <1>2. ASSUME RDown(r)
        PROVE  \E s1, e1 \in 0..FifoSize-1 : RingAt(s1, e1)'
    <2>1. Goto(r, "r_down", "r_lock")
      BY <1>2 DEF RDown
    <2>2. start' = start /\ end' = end
      BY <1>2 DEF RDown, ring
    <2>3. Filled' = Filled
      BY <1>2, <1>b, <2>1, ReadTickets DEF ReadStep, ReadFault, RWrap, Goto
    <2>4. StartAdvance' = StartAdvance /\ EndAdvance' = EndAdvance
      <3>1. HolderAt' = HolderAt
        BY <1>2, <1>b, <2>1, HolderMoves DEF RDown, CriticalPlaces
      <3> QED BY <3>1 DEF StartAdvance, EndAdvance
    <2> QED BY <1>a, <1>d, <2>2, <2>3, <2>4, RingQuiet
  <1>3. ASSUME RDownSignal(r)
        PROVE  \E s1, e1 \in 0..FifoSize-1 : RingAt(s1, e1)'
    <2>1. Goto(r, "r_down", "idle")
      BY <1>3 DEF RDownSignal
    <2>2. start' = start /\ end' = end
      BY <1>3 DEF RDownSignal, ring
    <2>3. Filled' = Filled
      BY <1>3, <1>b, <2>1, ReadTickets DEF ReadStep, ReadFault, RWrap, Goto
    <2>4. StartAdvance' = StartAdvance /\ EndAdvance' = EndAdvance
      <3>1. HolderAt' = HolderAt
        BY <1>3, <1>b, <2>1, HolderMoves DEF RDownSignal, CriticalPlaces
      <3> QED BY <3>1 DEF StartAdvance, EndAdvance
    <2> QED BY <1>a, <1>d, <2>2, <2>3, <2>4, RingQuiet
  <1>4. ASSUME RLock(r)
        PROVE  \E s1, e1 \in 0..FifoSize-1 : RingAt(s1, e1)'
    <2>1. Goto(r, "r_lock", "r_copy")
      BY <1>4 DEF RLock
    <2>2. start' = start /\ end' = end
      BY <1>4 DEF RLock, ring
    <2>3. Filled' = Filled
      BY <1>4, <1>b, <2>1, ReadTickets DEF ReadStep, ReadFault, RWrap, Goto
    <2>4. StartAdvance' = StartAdvance /\ EndAdvance' = EndAdvance
      <3>1. /\ HolderAt = "free"
            /\ HolderAt' = "r_copy"
        BY <1>4, <1>b, <2>1, HolderMoves DEF RLock, CriticalPlaces, HolderAt
      <3> QED BY <3>1 DEF StartAdvance, EndAdvance
    <2> QED BY <1>a, <1>d, <2>2, <2>3, <2>4, RingQuiet
  <1>5. ASSUME RLockSignal(r)
        PROVE  \E s1, e1 \in 0..FifoSize-1 : RingAt(s1, e1)'
    <2>1. Goto(r, "r_lock", "r_giveback")
      BY <1>5 DEF RLockSignal
    <2>2. start' = start /\ end' = end
      BY <1>5 DEF RLockSignal, ring
    <2>3. Filled' = Filled
      BY <1>5, <1>b, <2>1, ReadTickets DEF ReadStep, ReadFault, RWrap, Goto
    <2>4. StartAdvance' = StartAdvance /\ EndAdvance' = EndAdvance
      <3>1. HolderAt' = HolderAt
        BY <1>5, <1>b, <2>1, HolderMoves DEF RLockSignal, CriticalPlaces
      <3> QED BY <3>1 DEF StartAdvance, EndAdvance
    <2> QED BY <1>a, <1>d, <2>2, <2>3, <2>4, RingQuiet
  <1>6. ASSUME RCopy(r)
        PROVE  \E s1, e1 \in 0..FifoSize-1 : RingAt(s1, e1)'
    <2>1. Goto(r, "r_copy", "r_move")
      BY <1>6 DEF RCopy
    <2>2. start' = start /\ end' = end
      BY <1>6 DEF RCopy, ring
    <2>3. Filled' = Filled
      BY <1>6, <1>b, <2>1, ReadTickets DEF ReadStep, ReadFault, RWrap, Goto
    <2>4. StartAdvance' = StartAdvance /\ EndAdvance' = EndAdvance
      <3>1. /\ HolderAt = "r_copy"
            /\ HolderAt' = "r_move"
        BY <1>6, <1>b, <2>1, HolderMoves DEF RCopy, CriticalPlaces
      <3> QED BY <3>1 DEF StartAdvance, EndAdvance
    <2> QED BY <1>a, <1>d, <2>2, <2>3, <2>4, RingQuiet
  <1>7. ASSUME RCopyFails(r)
        PROVE  \E s1, e1 \in 0..FifoSize-1 : RingAt(s1, e1)'
    <2>1. Goto(r, "r_copy", "r_giveback")
      BY <1>7 DEF RCopyFails
    <2>2. start' = start /\ end' = end
      BY <1>7 DEF RCopyFails, ring
    <2>3. Filled' = Filled
      BY <1>7, <1>b, <2>1, ReadTickets DEF ReadStep, ReadFault, RWrap, Goto
    <2>4. StartAdvance' = StartAdvance /\ EndAdvance' = EndAdvance
      <3>1. /\ HolderAt = "r_copy"
            /\ HolderAt' = "free"
        BY <1>7, <1>b, <2>1, HolderMoves DEF RCopyFails, CriticalPlaces, HolderAt
      <3> QED BY <3>1 DEF StartAdvance, EndAdvance
    <2> QED BY <1>a, <1>d, <2>2, <2>3, <2>4, RingQuiet
  <1>8. ASSUME RMove(r)
        PROVE  \E s1, e1 \in 0..FifoSize-1 : RingAt(s1, e1)'
    <2>1. Goto(r, "r_move", "r_wrap") /\ start' = start + SlotSz /\ end' = end
      BY <1>8 DEF RMove
    <2>2. Filled' = Filled
      BY <1>8, <1>b, <2>1, ReadTickets DEF ReadStep, RWrap, Goto
    <2>3. HolderAt = "r_move" /\ HolderAt' = "r_wrap"
      BY <1>b, <2>1, HolderMoves DEF CriticalPlaces
    <2>4. RingAt(s, e)'
      BY <1>a, <2>1, <2>2, <2>3, SlotArithmetic, SizesPositive
         DEF RingAt, StartAdvance, EndAdvance
    <2> QED BY <1>d, <2>4
  <1>9. ASSUME RWrap(r)
        PROVE  \E s1, e1 \in 0..FifoSize-1 : RingAt(s1, e1)'
    <2>1. /\ Goto(r, "r_wrap", "r_up")
          /\ start' = (IF start = Cap THEN 0 ELSE start) /\ end' = end
          /\ mLock' = Nobody
      BY <1>9 DEF RWrap
    <2>2. Filled' = Filled - 1 /\ Filled \in Nat /\ Filled' \in Nat
      <3>1. Filled' = Filled - 1
        BY <1>9, <1>b, ReadTickets DEF ReadStep
      <3>2. Filled \in Nat /\ Filled >= 1
        BY <1>b, <2>1, TicketsNat DEF Goto, OccupyingPlaces
      <3> QED BY <3>1, <3>2
    <2>3. HolderAt = "r_wrap" /\ HolderAt' = "free"
      BY <1>b, <2>1, HolderMoves DEF CriticalPlaces, HolderAt
    <2>4. /\ start = SlotSz * s + SlotSz /\ StartAdvance' = 0
          /\ end = SlotSz * e /\ EndAdvance' = 0
          /\ e = s + Filled \/ e = s + Filled - FifoSize
      BY <1>a, <2>3, SlotArithmetic DEF RingAt, StartAdvance, EndAdvance
    <2>5. CASE s + 1 = FifoSize
      <3>1. start' = SlotSz * 0
        BY <2>1, <2>4, <2>5, SlotArithmetic
      <3>2. RingAt(0, e)'
        BY <2>1, <2>2, <2>4, <2>5, <3>1, SizesAssumption, SlotArithmetic DEF RingAt
      <3> QED BY <3>2, SizesAssumption
    <2>6. CASE s + 1 # FifoSize
      <3>1. start' = SlotSz * (s+1) /\ s+1 \in 0..FifoSize-1
        BY <2>1, <2>4, <2>6, SlotArithmetic, SizesAssumption
      <3>2. RingAt(s+1, e)'
        BY <2>1, <2>2, <2>4, <3>1, SizesAssumption, SlotArithmetic DEF RingAt
      <3> QED BY <3>1, <3>2
    <2> QED BY <2>5, <2>6
  <1>10. ASSUME RUp(r)
        PROVE  \E s1, e1 \in 0..FifoSize-1 : RingAt(s1, e1)'
    <2>1. Goto(r, "r_up", "idle")
      BY <1>10 DEF RUp
    <2>2. start' = start /\ end' = end
      BY <1>10 DEF RUp, ring
    <2>3. Filled' = Filled
      BY <1>10, <1>b, <2>1, ReadTickets DEF ReadStep, ReadFault, RWrap, Goto
    <2>4. StartAdvance' = StartAdvance /\ EndAdvance' = EndAdvance
      <3>1. HolderAt' = HolderAt
        BY <1>10, <1>b, <2>1, HolderMoves DEF RUp, CriticalPlaces
      <3> QED BY <3>1 DEF StartAdvance, EndAdvance
    <2> QED BY <1>a, <1>d, <2>2, <2>3, <2>4, RingQuiet
  <1>11. ASSUME RGiveBack(r)
        PROVE  \E s1, e1 \in 0..FifoSize-1 : RingAt(s1, e1)'
    <2>1. Goto(r, "r_giveback", "idle")
      BY <1>11 DEF RGiveBack
    <2>2. start' = start /\ end' = end
      BY <1>11 DEF RGiveBack, ring
    <2>3. Filled' = Filled
      BY <1>11, <1>b, <2>1, ReadTickets DEF ReadStep, ReadFault, RWrap, Goto
    <2>4. StartAdvance' = StartAdvance /\ EndAdvance' = EndAdvance
      <3>1. HolderAt' = HolderAt
        BY <1>11, <1>b, <2>1, HolderMoves DEF RGiveBack, CriticalPlaces
      <3> QED BY <3>1 DEF StartAdvance, EndAdvance
    <2> QED BY <1>a, <1>d, <2>2, <2>3, <2>4, RingQuiet
  <1> QED BY <1>a, <1>1, <1>2, <1>3, <1>4, <1>5, <1>6, <1>7, <1>8, <1>9, <1>10, <1>11
       DEF ReadStep, ReadFault

LEMMA WriteRing ==
    ASSUME RingInv, Typed', MutualExclusion', TicketConservation',
           NEW w \in Writers, WBegin(w) \/ WriteStep(w) \/ WriteFault(w), ~WriteMayFail
    PROVE  RingPosition'
  <1>a. PICK s \in 0..FifoSize-1, e \in 0..FifoSize-1 : RingAt(s, e)
    BY DEF RingInv, RingPosition
  <1>b. w \in Procs /\ TypeOK /\ MutualExclusion
    BY DEF Procs, RingInv, Typed
  <1>c. SUFFICES \E s1, e1 \in 0..FifoSize-1 : RingAt(s1, e1)'
    BY DEF RingPosition
  <1>d. RingAt(s, e)' => \E s1, e1 \in 0..FifoSize-1 : RingAt(s1, e1)'
    OBVIOUS
  <1>1. ASSUME WBegin(w)
        PROVE  \E s1, e1 \in 0..FifoSize-1 : RingAt(s1, e1)'
    <2>1. Goto(w, "idle", "w_down")
      BY <1>1 DEF WBegin
    <2>2. start' = start /\ end' = end
      BY <1>1 DEF WBegin, ring
    <2>3. Filled' = Filled
      BY <1>1, <1>b, <2>1, WriteTickets DEF WriteStep, WriteFault, WWrap, Goto
    <2>4. StartAdvance' = StartAdvance /\ EndAdvance' = EndAdvance
      <3>1. HolderAt' = HolderAt
        BY <1>1, <1>b, <2>1, HolderMoves DEF WBegin, CriticalPlaces
      <3> QED BY <3>1 DEF StartAdvance, EndAdvance
    <2> QED BY <1>a, <1>d, <2>2, <2>3, <2>4, RingQuiet
  <1>2. ASSUME WDown(w)
        PROVE  \E s1, e1 \in 0..FifoSize-1 : RingAt(s1, e1)'
    <2>1. Goto(w, "w_down", "w_lock")
      BY <1>2 DEF WDown
    <2>2. start' = start /\ end' = end
      BY <1>2 DEF WDown, ring
    <2>3. Filled' = Filled
      BY <1>2, <1>b, <2>1, WriteTickets DEF WriteStep, WriteFault, WWrap, Goto
    <2>4. StartAdvance' = StartAdvance /\ EndAdvance' = EndAdvance
      <3>1. HolderAt' = HolderAt
        BY <1>2, <1>b, <2>1, HolderMoves DEF WDown, CriticalPlaces
      <3> QED BY <3>1 DEF StartAdvance, EndAdvance
    <2> QED BY <1>a, <1>d, <2>2, <2>3, <2>4, RingQuiet
  <1>3. ASSUME WDownSignal(w)
        PROVE  \E s1, e1 \in 0..FifoSize-1 : RingAt(s1, e1)'
    <2>1. Goto(w, "w_down", "idle")
      BY <1>3 DEF WDownSignal
    <2>2. start' = start /\ end' = end
      BY <1>3 DEF WDownSignal, ring
    <2>3. Filled' = Filled
      BY <1>3, <1>b, <2>1, WriteTickets DEF WriteStep, WriteFault, WWrap, Goto
    <2>4. StartAdvance' = StartAdvance /\ EndAdvance' = EndAdvance
      <3>1. HolderAt' = HolderAt
        BY <1>3, <1>b, <2>1, HolderMoves DEF WDownSignal, CriticalPlaces
      <3> QED BY <3>1 DEF StartAdvance, EndAdvance
    <2> QED BY <1>a, <1>d, <2>2, <2>3, <2>4, RingQuiet
  <1>4. ASSUME WLock(w)
        PROVE  \E s1, e1 \in 0..FifoSize-1 : RingAt(s1, e1)'
    <2>1. Goto(w, "w_lock", "w_header")
      BY <1>4 DEF WLock
    <2>2. start' = start /\ end' = end
      BY <1>4 DEF WLock, ring
    <2>3. Filled' = Filled
      BY <1>4, <1>b, <2>1, WriteTickets DEF WriteStep, WriteFault, WWrap, Goto
    <2>4. StartAdvance' = StartAdvance /\ EndAdvance' = EndAdvance
      <3>1. /\ HolderAt = "free"
            /\ HolderAt' = "w_header"
        BY <1>4, <1>b, <2>1, HolderMoves DEF WLock, CriticalPlaces, HolderAt
      <3> QED BY <3>1 DEF StartAdvance, EndAdvance
    <2> QED BY <1>a, <1>d, <2>2, <2>3, <2>4, RingQuiet
  <1>5. ASSUME WLockSignal(w)
        PROVE  \E s1, e1 \in 0..FifoSize-1 : RingAt(s1, e1)'
    <2>1. Goto(w, "w_lock", "w_giveback")
      BY <1>5 DEF WLockSignal
    <2>2. start' = start /\ end' = end
      BY <1>5 DEF WLockSignal, ring
    <2>3. Filled' = Filled
      BY <1>5, <1>b, <2>1, WriteTickets DEF WriteStep, WriteFault, WWrap, Goto
    <2>4. StartAdvance' = StartAdvance /\ EndAdvance' = EndAdvance
      <3>1. HolderAt' = HolderAt
        BY <1>5, <1>b, <2>1, HolderMoves DEF WLockSignal, CriticalPlaces
      <3> QED BY <3>1 DEF StartAdvance, EndAdvance
    <2> QED BY <1>a, <1>d, <2>2, <2>3, <2>4, RingQuiet
  <1>6. ASSUME WHeader(w)
        PROVE  \E s1, e1 \in 0..FifoSize-1 : RingAt(s1, e1)'
    <2>1. Goto(w, "w_header", "w_store") /\ end' = end + 1 /\ start' = start
      BY <1>6 DEF WHeader
    <2>2. Filled' = Filled
      BY <1>6, <1>b, <2>1, WriteTickets DEF WriteStep, WWrap, Goto
    <2>3. HolderAt = "w_header" /\ HolderAt' = "w_store"
      BY <1>b, <2>1, HolderMoves DEF CriticalPlaces
    <2>4. RingAt(s, e)'
      BY <1>a, <2>1, <2>2, <2>3, SlotArithmetic DEF RingAt, StartAdvance, EndAdvance
    <2> QED BY <1>d, <2>4
  <1>7. ASSUME WStore(w)
        PROVE  \E s1, e1 \in 0..FifoSize-1 : RingAt(s1, e1)'
    <2>1. Goto(w, "w_store", "w_copy")
      BY <1>7 DEF WStore
    <2>2. start' = start /\ end' = end
      BY <1>7 DEF WStore, ring
    <2>3. Filled' = Filled
      BY <1>7, <1>b, <2>1, WriteTickets DEF WriteStep, WriteFault, WWrap, Goto
    <2>4. StartAdvance' = StartAdvance /\ EndAdvance' = EndAdvance
      <3>1. /\ HolderAt = "w_store"
            /\ HolderAt' = "w_copy"
        BY <1>7, <1>b, <2>1, HolderMoves DEF WStore, CriticalPlaces
      <3> QED BY <3>1 DEF StartAdvance, EndAdvance
    <2> QED BY <1>a, <1>d, <2>2, <2>3, <2>4, RingQuiet
  <1>8. ASSUME WCopy(w)
        PROVE  \E s1, e1 \in 0..FifoSize-1 : RingAt(s1, e1)'
    <2>1. Goto(w, "w_copy", "w_move")
      BY <1>8 DEF WCopy
    <2>2. start' = start /\ end' = end
      BY <1>8 DEF WCopy, ring
    <2>3. Filled' = Filled
      BY <1>8, <1>b, <2>1, WriteTickets DEF WriteStep, WriteFault, WWrap, Goto
    <2>4. StartAdvance' = StartAdvance /\ EndAdvance' = EndAdvance
      <3>1. /\ HolderAt = "w_copy"
            /\ HolderAt' = "w_move"
        BY <1>8, <1>b, <2>1, HolderMoves DEF WCopy, CriticalPlaces
      <3> QED BY <3>1 DEF StartAdvance, EndAdvance
    <2> QED BY <1>a, <1>d, <2>2, <2>3, <2>4, RingQuiet
  <1>9. ASSUME WCopyFails(w)
        PROVE  \E s1, e1 \in 0..FifoSize-1 : RingAt(s1, e1)'
    BY <1>9 DEF WCopyFails
  <1>10. ASSUME WMove(w)
        PROVE  \E s1, e1 \in 0..FifoSize-1 : RingAt(s1, e1)'
    <2>1. Goto(w, "w_move", "w_wrap") /\ end' = end + ElemSz /\ start' = start
      BY <1>10 DEF WMove
    <2>2. Filled' = Filled
      BY <1>10, <1>b, <2>1, WriteTickets DEF WriteStep, WWrap, Goto
    <2>3. HolderAt = "w_move" /\ HolderAt' = "w_wrap"
      BY <1>b, <2>1, HolderMoves DEF CriticalPlaces
    <2>4. SlotSz = ElemSz + 1 /\ ElemSz \in Nat
      BY SizesAssumption DEF SlotSz
    <2>5. RingAt(s, e)'
      BY <1>a, <2>1, <2>2, <2>3, <2>4, SlotArithmetic
         DEF RingAt, StartAdvance, EndAdvance
    <2> QED BY <1>d, <2>5
  <1>11. ASSUME WWrap(w)
        PROVE  \E s1, e1 \in 0..FifoSize-1 : RingAt(s1, e1)'
    <2>1. /\ Goto(w, "w_wrap", "w_up")
          /\ end' = (IF end = Cap THEN 0 ELSE end) /\ start' = start
          /\ mLock' = Nobody
      BY <1>11 DEF WWrap
    <2>2. Filled' = Filled + 1 /\ Filled \in Nat /\ Filled' <= FifoSize
      <3>1. Filled' = Filled + 1
        BY <1>11, <1>b, WriteTickets DEF WriteStep
      <3>2. Filled \in Nat /\ Free \in Nat /\ Free >= 1
        BY <1>b, <2>1, TicketsNat DEF Goto, ReservingPlaces
      <3>3. Filled + Free = FifoSize
        BY DEF RingInv, TicketConservation
      <3> QED BY <3>1, <3>2, <3>3, SizesAssumption
    <2>3. HolderAt = "w_wrap" /\ HolderAt' = "free"
      BY <1>b, <2>1, HolderMoves DEF CriticalPlaces, HolderAt
    <2>4. /\ end = SlotSz * e + SlotSz /\ EndAdvance' = 0
          /\ start = SlotSz * s /\ StartAdvance' = 0
          /\ e = s + Filled \/ e = s + Filled - FifoSize
      BY <1>a, <2>3, SlotArithmetic DEF RingAt, StartAdvance, EndAdvance
    <2>5. CASE e + 1 = FifoSize
      <3>1. end' = SlotSz * 0
        BY <2>1, <2>4, <2>5, SlotArithmetic
      <3>2. RingAt(s, 0)'
        BY <2>1, <2>2, <2>4, <2>5, <3>1, SizesAssumption, SlotArithmetic DEF RingAt
      <3> QED BY <3>2, SizesAssumption
    <2>6. CASE e + 1 # FifoSize
      <3>1. end' = SlotSz * (e+1) /\ e+1 \in 0..FifoSize-1
        BY <2>1, <2>4, <2>6, SlotArithmetic, SizesAssumption
      <3>2. RingAt(s, e+1)'
        BY <2>1, <2>2, <2>4, <3>1, SizesAssumption, SlotArithmetic DEF RingAt
      <3> QED BY <3>1, <3>2
    <2> QED BY <2>5, <2>6
  <1>12. ASSUME WUp(w)
        PROVE  \E s1, e1 \in 0..FifoSize-1 : RingAt(s1, e1)'
    <2>1. Goto(w, "w_up", "idle")
      BY <1>12 DEF WUp
    <2>2. start' = start /\ end' = end
      BY <1>12 DEF WUp, ring
    <2>3. Filled' = Filled
      BY <1>12, <1>b, <2>1, WriteTickets DEF WriteStep, WriteFault, WWrap, Goto
    <2>4. StartAdvance' = StartAdvance /\ EndAdvance' = EndAdvance
      <3>1. HolderAt' = HolderAt
        BY <1>12, <1>b, <2>1, HolderMoves DEF WUp, CriticalPlaces
      <3> QED BY <3>1 DEF StartAdvance, EndAdvance
    <2> QED BY <1>a, <1>d, <2>2, <2>3, <2>4, RingQuiet
  <1>13. ASSUME WGiveBack(w)
        PROVE  \E s1, e1 \in 0..FifoSize-1 : RingAt(s1, e1)'
    <2>1. Goto(w, "w_giveback", "idle")
      BY <1>13 DEF WGiveBack
    <2>2. start' = start /\ end' = end
      BY <1>13 DEF WGiveBack, ring
    <2>3. Filled' = Filled
      BY <1>13, <1>b, <2>1, WriteTickets DEF WriteStep, WriteFault, WWrap, Goto
    <2>4. StartAdvance' = StartAdvance /\ EndAdvance' = EndAdvance
      <3>1. HolderAt' = HolderAt
        BY <1>13, <1>b, <2>1, HolderMoves DEF WGiveBack, CriticalPlaces
      <3> QED BY <3>1 DEF StartAdvance, EndAdvance
    <2> QED BY <1>a, <1>d, <2>2, <2>3, <2>4, RingQuiet
  <1> QED BY <1>a, <1>1, <1>2, <1>3, <1>4, <1>5, <1>6, <1>7, <1>8, <1>9, <1>10, <1>11, <1>12, <1>13
       DEF WriteStep, WriteFault

LEMMA RingInit == Init => RingInv
  <1> SUFFICES ASSUME Init PROVE RingInv
    OBVIOUS
  <1>1. Typed /\ MutualExclusion
    BY TypedInit, ProcsAssumption DEF Init, MutualExclusion, CriticalPlaces
  <1>2. /\ Holding(OccupyingPlaces) = {}
        /\ Holding(ReservingPlaces) = {}
    BY DEF Init, Holding, OccupyingPlaces, ReservingPlaces
  <1>3. Filled = 0 /\ Free = FifoSize
    BY <1>2, SizesAssumption, FS_EmptySet DEF Init, Filled, Free
  <1>4. RingAt(0, 0)
    <2>1. 0 \in 0..FifoSize-1
      BY SizesAssumption
    <2>2. StartAdvance = 0 /\ EndAdvance = 0
      BY DEF Init, StartAdvance, EndAdvance, HolderAt
    <2> QED BY <1>3, <2>1, <2>2, SlotArithmetic DEF Init, RingAt
  <1>5. RingPosition
    BY <1>4, SizesAssumption DEF RingPosition
  <1> QED BY <1>1, <1>3, <1>5, SizesAssumption DEF RingInv, TicketConservation

LEMMA RingStep ==
    ASSUME ~WriteMayFail
    PROVE  RingInv /\ [Next]_vars => RingInv'
  <1> SUFFICES ASSUME RingInv, [Next]_vars PROVE RingInv'
    OBVIOUS
  <1>1. Typed' /\ MutualExclusion' /\ TicketConservation'
    BY TypedStep, MutexStep, TicketsStep DEF RingInv
  <1>2. CASE Next
    BY <1>1, <1>2, ReadRing, WriteRing DEF Next, RingInv
  <1>3. CASE UNCHANGED vars
    <2>1. Filled' = Filled /\ StartAdvance' = StartAdvance /\ EndAdvance' = EndAdvance
      BY <1>3 DEF vars, Filled, Holding, StartAdvance, EndAdvance, HolderAt
    <2>2. start' = start /\ end' = end
      BY <1>3 DEF vars
    <2>3. \A s, e \in 0..FifoSize-1 : RingAt(s, e) => RingAt(s, e)'
      BY <2>1, <2>2 DEF RingAt
    <2> QED BY <1>1, <2>3 DEF RingInv, RingPosition
  <1> QED BY <1>2, <1>3

(* Without failing copies in scull_write, the pointers and the semaphores  *)
(* agree whenever the mutex is free: start and end stand on element        *)
(* boundaries, as many elements apart as are filled.                       *)
THEOREM Ring ==
    ASSUME ~WriteMayFail
    PROVE  Spec => []RingAgreement
  <1>1. RingInv => RingAgreement
    <2> SUFFICES ASSUME RingInv, mLock = Nobody
                 PROVE  \E s, e \in 0..FifoSize-1 :
                           /\ start = SlotSz * s
                           /\ end = SlotSz * e
                           /\ e = s + Filled \/ e = s + Filled - FifoSize
      BY DEF RingAgreement
    <2>1. StartAdvance = 0 /\ EndAdvance = 0
      BY DEF StartAdvance, EndAdvance, HolderAt
    <2>2. PICK s \in 0..FifoSize-1, e \in 0..FifoSize-1 : RingAt(s, e)
      BY DEF RingInv, RingPosition
    <2>3. start = SlotSz * s /\ end = SlotSz * e
      BY <2>1, <2>2, SlotArithmetic DEF RingAt
    <2> QED BY <2>2, <2>3 DEF RingAt
  <1> QED BY <1>1, RingInit, RingStep, PTL DEF Spec

(* An offset in one lap of the block, or in the next, folded into it.      *)
LEMMA FoldedOffset ==
    ASSUME NEW x \in 0..Cap-1
    PROVE  x % Cap = x /\ (x + Cap) % Cap = x
  <1>1. \A c \in Nat : c >= 1 => \A y \in 0..c-1 : y % c = y /\ (y + c) % c = y
    OBVIOUS
  <1> QED BY <1>1, SizesPositive

(* At such a place a writer copies inside the block, and into an element   *)
(* that is free.                                                           *)
LEMMA RingCopyTargets == RingInv => CopyTargetsFree
  <1> SUFFICES ASSUME RingInv, NEW w \in Writers, pc[w] = "w_copy"
               PROVE  /\ end + ElemSz <= Cap
                      /\ \A i \in 0..Filled-1 : (start + SlotSz * i) % Cap # end - 1
    BY DEF CopyTargetsFree
  <1>1. w \in Procs /\ TypeOK
    BY DEF Procs, RingInv, Typed
  <1>2. HolderAt = "w_copy"
    <2>1. mLock = w /\ w # Nobody
      BY <1>1, ProcsAssumption DEF RingInv, MutualExclusion, CriticalPlaces
    <2> QED BY <2>1 DEF HolderAt
  <1>3. PICK s \in 0..FifoSize-1, e \in 0..FifoSize-1 : RingAt(s, e)
    BY DEF RingInv, RingPosition
  <1>4. /\ start = SlotSz * s
        /\ end = SlotSz * e + 1
        /\ e = s + Filled \/ e = s + Filled - FifoSize
    BY <1>2, <1>3, SlotArithmetic DEF RingAt, StartAdvance, EndAdvance
  <1>5. Filled \in Nat /\ Filled < FifoSize
    <2>1. Filled \in Nat /\ Free \in Nat /\ Free >= 1
      BY <1>1, TicketsNat DEF ReservingPlaces
    <2> QED BY <2>1, SizesAssumption DEF RingInv, TicketConservation
  <1>6. end + ElemSz <= Cap
    BY <1>4, SlotArithmetic, SizesAssumption DEF SlotSz
  <1>7. ASSUME NEW i \in 0..Filled-1
        PROVE  (start + SlotSz * i) % Cap # end - 1
    <2>1. \A m, a, b \in Nat : m * (a + b) = m * a + m * b
      OBVIOUS
    <2>2. start + SlotSz * i = SlotSz * (s + i)
      BY <1>4, <1>5, <2>1, SizesPositive
    <2>3. \A x, y \in 0..FifoSize-1 : SlotSz * x = SlotSz * y => x = y
      <3>1. \A m, a, b \in Nat : m >= 1 /\ m * a = m * b => a = b
        OBVIOUS
      <3> QED BY <3>1, SizesPositive, SizesAssumption
    <2>4. \A x \in 0..FifoSize-1 : SlotSz * x \in 0..Cap-1
      BY SlotArithmetic, SizesPositive
    <2>5. CASE s + i < FifoSize
      <3>1. s + i \in 0..FifoSize-1 /\ s + i # e
        BY <1>4, <1>5, <2>5, SizesAssumption
      <3>2. (start + SlotSz * i) % Cap = SlotSz * (s + i)
        BY <2>2, <2>4, <3>1, FoldedOffset
      <3> QED BY <1>4, <2>3, <3>1, <3>2, SlotArithmetic
    <2>6. CASE s + i >= FifoSize
      <3>1. s + i - FifoSize \in 0..FifoSize-1 /\ s + i - FifoSize # e
        BY <1>4, <1>5, <2>6, SizesAssumption
      <3>2. SlotSz * (s + i) = SlotSz * (s + i - FifoSize) + Cap
        <4>1. FifoSize \in Nat /\ s + i - FifoSize \in Nat
          BY <3>1, SizesAssumption
        <4>2. SlotSz * (s + i - FifoSize + FifoSize)
                 = SlotSz * (s + i - FifoSize) + SlotSz * FifoSize
          BY <2>1, <4>1, SizesPositive
        <4>3. s + i - FifoSize + FifoSize = s + i
          BY <1>5, SizesAssumption
        <4> QED BY <4>2, <4>3 DEF Cap
      <3>3. (start + SlotSz * i) % Cap = SlotSz * (s + i - FifoSize)
        BY <2>2, <2>4, <3>1, <3>2, FoldedOffset
      <3> QED BY <1>4, <2>3, <3>1, <3>3, SlotArithmetic
    <2> QED BY <1>5, <2>5, <2>6, SizesAssumption
  <1> QED BY <1>6, <1>7

(* Without failing copies in scull_write, a writer copies its message      *)
(* inside the block and never over a message that waits to be read.        *)
THEOREM CopyTargets ==
    ASSUME ~WriteMayFail
    PROVE  Spec => []CopyTargetsFree
  BY RingInit, RingStep, RingCopyTargets, PTL DEF Spec
=============================================================================
