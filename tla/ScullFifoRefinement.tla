------------------------ MODULE ScullFifoRefinement ------------------------
(***************************************************************************)
(* ScullFifo implements BoundedFifo: with one writer at a time and good    *)
(* addresses in write, the ring behaves like a bounded queue, for any      *)
(* readers, ring size, element size, counts and messages, and although any *)
(* wait may be interrupted and any read may fail.                          *)
(***************************************************************************)
EXTENDS ScullFifoProofs, SequenceTheorems

OneWriter == \A v, w \in Writers : v = w

-----------------------------------------------------------------------------
(* The inductive invariant, beyond that of the ring *)

(* The pointer a writer keeps before it waits is still where the next      *)
(* element begins when it stores the length there.                         *)
StoreSlot == \A w \in Writers :
    /\ pc[w] \in {"w_down", "w_lock", "w_header"} => store_len[w] = end
    /\ pc[w] = "w_store" => store_len[w] = end - 1

(* An element has only words of messages in it, or of memory nobody wrote: *)
(* no length ever gets into the room for a message.                        *)
WordsKnown ==
    /\ \A k \in 0..FifoSize-1, j \in 1..ElemSz :
          circleBuffer[SlotSz * k + j] \in Msgs \cup Junk
    /\ \A w \in Writers : buf[w] \in Seq(Msgs)

(* The element a writer has filled carries its message until it is counted.*)
MessageCopied == \A w \in Writers, j \in 1..ElemSz : j <= Len(buf[w]) =>
    /\ pc[w] = "w_move" => circleBuffer[end - 1 + j] = buf[w][j]
    /\ pc[w] = "w_wrap" => circleBuffer[end - SlotSz + j] = buf[w][j]

FInv == RingInv /\ StoreSlot /\ WordsKnown /\ MessageCopied
-----------------------------------------------------------------------------
(* Words, elements and laps *)

SlotAt(mem, k)    == [j \in 1..ElemSz |-> mem[SlotSz * k + j]]
Wrapped(k)        == IF k < FifoSize THEN k ELSE k - FifoSize
Queue(mem, h, u)  == [i \in 1..u |-> SlotAt(mem, Wrapped(h + i - 1))]

(* The words of different elements lie apart, and none is a length.        *)
LEMMA WordsApart ==
    ASSUME NEW k \in 0..FifoSize-1, NEW e \in 0..FifoSize-1,
           NEW j \in 1..ElemSz, NEW i \in 0..ElemSz
    PROVE  /\ SlotSz * k + j \in 0..Cap-1
           /\ SlotSz * e \in Nat
           /\ SlotSz * k + j = SlotSz * e + i => k = e /\ j = i
  <1>1. /\ SlotSz * k \in Nat /\ SlotSz * (k+1) = SlotSz * k + SlotSz
        /\ SlotSz * k + SlotSz <= Cap
        /\ SlotSz * e \in Nat /\ SlotSz * (e+1) = SlotSz * e + SlotSz
    BY SlotArithmetic
  <1>2. SlotSz = ElemSz + 1 /\ ElemSz \in Nat /\ Cap \in Nat /\ SlotSz \in Nat
    BY SizesAssumption, SizesPositive DEF SlotSz
  <1>3. \A m, a, b \in Nat : a <= b => m * a <= m * b
    OBVIOUS
  <1>4. k < e => SlotSz * (k+1) <= SlotSz * e
    BY <1>2, <1>3, SizesAssumption
  <1>5. e < k => SlotSz * (e+1) <= SlotSz * k
    BY <1>2, <1>3, SizesAssumption
  <1> DEFINE a == SlotSz * k
             b == SlotSz * e
  <1>6. /\ a \in Nat /\ b \in Nat /\ a + SlotSz <= Cap
        /\ k < e => a + SlotSz <= b
        /\ e < k => b + SlotSz <= a
    BY <1>1, <1>4, <1>5
  <1>7. a + j \in 0..Cap-1 /\ (a + j = b + i => k = e /\ j = i)
    <2> HIDE DEF a, b
    <2>1. k = e => a = b
      BY DEF a, b
    <2> QED BY <1>2, <1>6, <2>1, SizesAssumption
  <1> QED BY <1>6, <1>7

(* Storing the length of an element changes no word of any element.        *)
LEMMA StoreKeepsWords ==
    ASSUME NEW mem \in [0..Cap-1 -> Int], NEW e \in 0..FifoSize-1, NEW word,
           NEW k \in 0..FifoSize-1, NEW j \in 1..ElemSz
    PROVE  StoreAt(mem, SlotSz * e, word)[SlotSz * k + j] = mem[SlotSz * k + j]
  <1>1. SlotSz * k + j \in 0..Cap-1
    BY WordsApart, SizesAssumption
  <1>2. SlotSz * k + j # SlotSz * e
    <2>1. 0 \in 0..ElemSz
      BY SizesAssumption
    <2>2. SlotSz * e \in Nat /\ (SlotSz * k + j = SlotSz * e + 0 => j = 0)
      BY <2>1, WordsApart
    <2> QED BY <2>2
  <1> QED BY <1>1, <1>2 DEF StoreAt

(* The first n words after the length of an element are words of that      *)
(* element only.                                                           *)
LEMMA CopyRange ==
    ASSUME NEW e \in 0..FifoSize-1, NEW n \in 0..ElemSz,
           NEW k \in 0..FifoSize-1, NEW j \in 1..ElemSz
    PROVE  SlotSz * k + j \in SlotSz * e + 1 .. SlotSz * e + n <=> k = e /\ j <= n
  <1>1. /\ SlotSz * k \in Nat /\ SlotSz * e \in Nat
        /\ n \in Nat /\ j \in Nat /\ j >= 1 /\ n <= ElemSz
    BY SlotArithmetic, SizesAssumption
  <1>2. ASSUME k # e, SlotSz * k + j \in SlotSz * e + 1 .. SlotSz * e + n
        PROVE  FALSE
    <2> DEFINE i == SlotSz * k + j - SlotSz * e
    <2>1. i \in 0..ElemSz /\ SlotSz * k + j = SlotSz * e + i
      BY <1>1, <1>2, SizesAssumption
    <2> HIDE DEF i
    <2>2. k = e
      BY <2>1, WordsApart
    <2> QED BY <1>2, <2>2
  <1>3. CASE k = e
    BY <1>1, <1>3
  <1> QED BY <1>2, <1>3

(* The offset of an element counted on from the head, lap or no lap.       *)
LEMMA FoldedSlot ==
    ASSUME NEW k \in 0 .. 2 * FifoSize - 1
    PROVE  /\ Wrapped(k) \in 0..FifoSize-1
           /\ (SlotSz * k) % Cap = SlotSz * Wrapped(k)
  <1>1. Wrapped(k) \in 0..FifoSize-1
    BY SizesAssumption DEF Wrapped
  <1>2. SlotSz * Wrapped(k) \in 0..Cap-1
    BY <1>1, SlotArithmetic, SizesPositive
  <1>3. CASE k < FifoSize
    <2>1. Wrapped(k) = k
      BY <1>3 DEF Wrapped
    <2> HIDE DEF Wrapped
    <2> QED BY <1>1, <1>2, <2>1, FoldedOffset
  <1>4. CASE k >= FifoSize
    <2>1. \A m, a, b \in Nat : m * (a + b) = m * a + m * b
      OBVIOUS
    <2>2. k - FifoSize \in Nat /\ FifoSize \in Nat /\ k = (k - FifoSize) + FifoSize
      BY <1>4, SizesAssumption
    <2>3. SlotSz * ((k - FifoSize) + FifoSize) = SlotSz * (k - FifoSize) + SlotSz * FifoSize
      BY <2>1, <2>2, SizesPositive
    <2>4. SlotSz * k = SlotSz * Wrapped(k) + Cap
      BY <1>4, <2>2, <2>3, SizesAssumption DEF Wrapped, Cap
    <2> QED BY <1>1, <1>2, <2>4, FoldedOffset
  <1> QED BY <1>1, <1>3, <1>4, SizesAssumption

(* What waits, told from the slot of the head.                             *)
LEMMA QueueFromHead ==
    ASSUME NEW mem, NEW h \in 0..FifoSize, NEW u \in 0..FifoSize, h + u < 2 * FifoSize
    PROVE  [i \in 1..u |-> [j \in 1..ElemSz |->
                mem[((SlotSz * h + SlotSz * (i-1)) % Cap) + j]]] = Queue(mem, h, u)
  <1> SUFFICES ASSUME NEW i \in 1..u
               PROVE  (SlotSz * h + SlotSz * (i-1)) % Cap = SlotSz * Wrapped(h + i - 1)
    BY DEF Queue, SlotAt
  <1>1. \A m, a, b \in Nat : m * (a + b) = m * a + m * b
    OBVIOUS
  <1>2. h \in Nat /\ i - 1 \in Nat /\ h + (i - 1) = h + i - 1
        /\ h + i - 1 \in 0 .. 2 * FifoSize - 1
    BY SizesAssumption
  <1>3. SlotSz * (h + (i-1)) = SlotSz * h + SlotSz * (i-1)
    BY <1>1, <1>2, SizesPositive
  <1> QED BY <1>2, <1>3, FoldedSlot

(* Behind the last element the first one follows.                          *)
LEMMA QueueWraps ==
    ASSUME NEW mem, NEW u \in 0..FifoSize
    PROVE  Queue(mem, FifoSize, u) = Queue(mem, 0, u)
  <1>1. \A i \in 1..u : Wrapped(FifoSize + i - 1) = Wrapped(0 + i - 1)
    BY SizesAssumption DEF Wrapped
  <1> QED BY <1>1 DEF Queue

LEMMA SequenceIsItsTuple ==
    ASSUME NEW S, NEW s \in Seq(S), NEW n \in Nat, Len(s) = n
    PROVE  s = [i \in 1..n |-> s[i]]
  OBVIOUS

(* The queue without its head, and the queue with one more element.        *)
LEMMA QueueTail ==
    ASSUME NEW mem, NEW h \in Nat, NEW u \in Nat, u >= 1
    PROVE  /\ Queue(mem, h, u) # <<>>
           /\ Head(Queue(mem, h, u)) = SlotAt(mem, Wrapped(h))
           /\ Tail(Queue(mem, h, u)) = Queue(mem, h + 1, u - 1)
  <1> DEFINE S == {SlotAt(mem, Wrapped(h + i - 1)) : i \in 1..u}
             q == Queue(mem, h, u)
             t == Queue(mem, h + 1, u - 1)
  <1>1. q \in Seq(S) /\ Len(q) = u
    <2>1. q \in [1..u -> S]
      BY DEF Queue
    <2> HIDE DEF q, S
    <2> QED BY <2>1, TuplesAreSequences
  <1>2. q # <<>> /\ Head(q) = q[1] /\ q[1] = SlotAt(mem, Wrapped(h + 1 - 1))
    BY <1>1 DEF Queue
  <1>3. h + 1 - 1 = h
    OBVIOUS
  <1>4. Tail(q) = [i \in 1..u-1 |-> q[i+1]]
    <2> HIDE DEF q, S
    <2>1. /\ Tail(q) \in Seq(S)
          /\ Len(Tail(q)) = u - 1
          /\ \A i \in 1..Len(Tail(q)) : Tail(q)[i] = q[i+1]
      BY <1>1, <1>2, HeadTailProperties
    <2>2. Tail(q) = [i \in 1..u-1 |-> Tail(q)[i]]
      <3> DEFINE rest == Tail(q)
      <3>1. rest \in Seq(S) /\ Len(rest) = u - 1 /\ u - 1 \in Nat
        BY <2>1, <1>1
      <3> HIDE DEF rest
      <3>2. rest = [i \in 1..u-1 |-> rest[i]]
        BY <3>1, SequenceIsItsTuple
      <3> QED BY <3>2 DEF rest
    <2>3. \A i \in 1..u-1 : Tail(q)[i] = q[i+1]
      BY <2>1
    <2> QED BY <2>2, <2>3
  <1>5. \A i \in 1..u-1 : q[i+1] = SlotAt(mem, Wrapped(h + 1 + i - 1))
    <2> SUFFICES ASSUME NEW i \in 1..u-1
                 PROVE  q[i+1] = SlotAt(mem, Wrapped(h + 1 + i - 1))
      OBVIOUS
    <2>1. i+1 \in 1..u /\ h + (i+1) - 1 = h + 1 + i - 1
      OBVIOUS
    <2> QED BY <2>1 DEF Queue
  <1>6. Tail(q) = t
    <2>1. t = [i \in 1..u-1 |-> SlotAt(mem, Wrapped(h + 1 + i - 1))]
      BY DEF Queue
    <2> HIDE DEF q, t
    <2> QED BY <1>4, <1>5, <2>1
  <1> QED BY <1>2, <1>3, <1>6

LEMMA QueueAppend ==
    ASSUME NEW mem, NEW h \in Nat, NEW u \in Nat
    PROVE  /\ Len(Queue(mem, h, u)) = u
           /\ Queue(mem, h, u + 1) = Append(Queue(mem, h, u), SlotAt(mem, Wrapped(h + u)))
  <1> DEFINE S == {SlotAt(mem, Wrapped(h + i - 1)) : i \in 1..u}
             q == Queue(mem, h, u)
             x == SlotAt(mem, Wrapped(h + u))
  <1>1. q \in Seq(S) /\ Len(q) = u
    <2>1. q \in [1..u -> S]
      BY DEF Queue
    <2> HIDE DEF q, S
    <2> QED BY <2>1, TuplesAreSequences
  <1>2. Append(q, x) = [i \in 1..u+1 |-> IF i <= u THEN q[i] ELSE x]
    BY <1>1
  <1>3. \A i \in 1..u : q[i] = SlotAt(mem, Wrapped(h + i - 1))
    BY DEF Queue
  <1>4. h + (u + 1) - 1 = h + u
    OBVIOUS
  <1>5. Queue(mem, h, u + 1) = [i \in 1..u+1 |-> SlotAt(mem, Wrapped(h + i - 1))]
    BY DEF Queue
  <1>6. \A i \in 1..u+1 : (IF i <= u THEN q[i] ELSE x) = SlotAt(mem, Wrapped(h + i - 1))
    <2> SUFFICES ASSUME NEW i \in 1..u+1
                 PROVE  (IF i <= u THEN q[i] ELSE x) = SlotAt(mem, Wrapped(h + i - 1))
      OBVIOUS
    <2>1. CASE i <= u
      <3>1. i \in 1..u
        BY <2>1
      <3> HIDE DEF q, x
      <3> QED BY <1>3, <2>1, <3>1
    <2>2. CASE i = u + 1
      BY <1>4, <2>2
    <2> QED BY <2>1, <2>2
  <1> HIDE DEF q, x
  <1>7. Queue(mem, h, u + 1) = Append(q, x)
    BY <1>2, <1>5, <1>6
  <1> QED BY <1>1, <1>7 DEF q, x

(* The queue depends on no word outside its elements.                      *)
LEMMA QueueSame ==
    ASSUME NEW mem, NEW mem1, NEW h, NEW u,
           \A i \in 1..u, j \in 1..ElemSz :
              LET x == SlotSz * Wrapped(h + i - 1) + j IN mem1[x] = mem[x]
    PROVE  Queue(mem1, h, u) = Queue(mem, h, u)
  <1>1. \A i \in 1..u : SlotAt(mem1, Wrapped(h + i - 1)) = SlotAt(mem, Wrapped(h + i - 1))
    BY DEF SlotAt
  <1> QED BY <1>1 DEF Queue
-----------------------------------------------------------------------------
(* Who stands where, and what waits *)

(* A process in the critical section is alone there, before and after its  *)
(* step.                                                                   *)
LEMMA Alone ==
    ASSUME TypeOK, MutualExclusion, NEW p \in Procs,
           NEW CONSTANT from, NEW CONSTANT place,
           Goto(p, from, place), from \in CriticalPlaces,
           NEW CONSTANT x \in CriticalPlaces
    PROVE  (At(x) <=> x = from) /\ (At(x)' <=> x = place)
  <1>1. pc[p] = from /\ pc'[p] = place /\ (\A q \in Procs : q # p => pc'[q] = pc[q])
    BY DEF Goto, TypeOK
  <1>2. \A q \in Procs : pc[q] = x => q = p
    BY <1>1 DEF MutualExclusion
  <1> QED BY <1>1, <1>2 DEF At

(* A step between other places leaves a place as it is.                    *)
LEMMA Elsewhere ==
    ASSUME TypeOK, NEW p \in Procs, NEW CONSTANT from, NEW CONSTANT place,
           Goto(p, from, place), NEW CONSTANT x, x # from, x # place
    PROVE  At(x)' <=> At(x)
  BY DEF Goto, TypeOK, At

LEMMA HolderIs ==
    ASSUME MutualExclusion, NEW p \in Procs, pc[p] \in CriticalPlaces
    PROVE  HolderAt = pc[p]
  BY ProcsAssumption DEF MutualExclusion, HolderAt

LEMMA WaitingFromSlot ==
    ASSUME NEW h \in 0..FifoSize, NEW u \in 0..FifoSize, h + u < 2 * FifoSize
    PROVE  /\ Head1 = SlotSz * h /\ Unread = u =>
                 Waiting = Queue(circleBuffer, h, u)
           /\ Head1' = SlotSz * h /\ Unread' = u =>
                 Waiting' = Queue(circleBuffer', h, u)
  <1>1. [i \in 1..u |-> [j \in 1..ElemSz |->
           circleBuffer[((SlotSz * h + SlotSz * (i-1)) % Cap) + j]]] = Queue(circleBuffer, h, u)
    BY QueueFromHead
  <1>2. [i \in 1..u |-> [j \in 1..ElemSz |->
           circleBuffer'[((SlotSz * h + SlotSz * (i-1)) % Cap) + j]]] = Queue(circleBuffer', h, u)
    BY QueueFromHead
  <1> QED BY <1>1, <1>2 DEF Waiting, Unread1

LEMMA WaitingQuiet ==
    ASSUME TypeOK, NEW p \in Procs, NEW CONSTANT from, NEW CONSTANT place,
           Goto(p, from, place),
           {from, place} \cap {"r_move", "r_wrap"} = {},
           circleBuffer' = circleBuffer, start' = start, Filled' = Filled
    PROVE  Waiting' = Waiting
  <1>1. (At("r_move")' <=> At("r_move")) /\ (At("r_wrap")' <=> At("r_wrap"))
    BY Elsewhere
  <1>2. Unread' = Unread /\ Head1' = Head1
    BY <1>1 DEF Unread, Head1
  <1> QED BY <1>2 DEF Waiting, Unread1

(* A reader or a writer that leaves what waits alone only changes its own  *)
(* buffer, or nothing the queue is about.                                  *)
LEMMA AskOrStutter ==
    ASSUME TypeOK, NEW r \in Readers, Waiting' = Waiting,
           buf' = buf \/ buf' = [buf EXCEPT ![r] = <<>>]
    PROVE  [Fifo!Next]_(Fifo!fifoVars)
  <1>1. r \in Procs /\ Writers \subseteq Procs /\ r \notin Writers /\ Readers \subseteq Procs
    BY ProcsAssumption DEF Procs
  <1>2. CASE buf' = buf
    BY <1>2 DEF Fifo!fifoVars
  <1>3. CASE buf' = [buf EXCEPT ![r] = <<>>]
    <2>1. [w \in Writers |-> buf'[w]] = [w \in Writers |-> buf[w]]
      BY <1>1, <1>3 DEF TypeOK
    <2>2. [x \in Readers |-> buf'[x]] = [[x \in Readers |-> buf[x]] EXCEPT ![r] = <<>>]
      BY <1>1, <1>3 DEF TypeOK
    <2>3. Fifo!Ask(r)
      BY <2>1, <2>2 DEF Fifo!Ask
    <2> QED BY <2>3 DEF Fifo!Next
  <1> QED BY <1>2, <1>3

LEMMA OfferOrStutter ==
    ASSUME TypeOK, NEW w \in Writers, Waiting' = Waiting,
           NEW message, buf' = buf \/ buf' = [buf EXCEPT ![w] = message]
    PROVE  [Fifo!Next]_(Fifo!fifoVars)
  <1>1. w \in Procs /\ Readers \subseteq Procs /\ w \notin Readers /\ Writers \subseteq Procs
    BY ProcsAssumption DEF Procs
  <1>2. CASE buf' = buf
    BY <1>2 DEF Fifo!fifoVars
  <1>3. CASE buf' = [buf EXCEPT ![w] = message]
    <2>1. [r \in Readers |-> buf'[r]] = [r \in Readers |-> buf[r]]
      BY <1>1, <1>3 DEF TypeOK
    <2>2. [v \in Writers |-> buf'[v]] =
            [[v \in Writers |-> buf[v]] EXCEPT ![w] = [v \in Writers |-> buf'[v]][w]]
      BY <1>1, <1>3 DEF TypeOK
    <2>3. Fifo!Offer(w)
      BY <2>1, <2>2 DEF Fifo!Offer
    <2> QED BY <2>3 DEF Fifo!Next
  <1> QED BY <1>2, <1>3
-----------------------------------------------------------------------------
(* Readers *)

LEMMA TicketsBound ==
    ASSUME RingInv
    PROVE  /\ Filled \in 0..FifoSize
           /\ \A p \in Procs : pc[p] \in OccupyingPlaces => Filled >= 1
           /\ \A p \in Procs : pc[p] \in ReservingPlaces => Filled < FifoSize
  BY TicketsNat, SizesAssumption DEF RingInv, Typed, TicketConservation

(* Copying to the user takes the head of the queue away, and hands over    *)
(* words of it only.                                                       *)
LEMMA CopyGets ==
    ASSUME RingInv, NEW r \in Readers, RCopy(r)
    PROVE  Fifo!Get(r)
  <1>a. r \in Procs /\ TypeOK /\ MutualExclusion /\ Writers \subseteq Procs
        /\ Readers \subseteq Procs /\ r \notin Writers
    BY ProcsAssumption DEF RingInv, Typed, Procs
  <1>b. Goto(r, "r_copy", "r_move") /\ pc[r] = "r_copy"
    BY DEF RCopy, Goto
  <1>1. PICK s \in 0..FifoSize-1, e \in 0..FifoSize-1 : RingAt(s, e)
    BY DEF RingInv, RingPosition
  <1>2. start = SlotSz * s
    <2>1. HolderAt = "r_copy"
      BY <1>a, <1>b, HolderIs DEF CriticalPlaces
    <2>2. SlotSz * s \in Nat
      BY SlotArithmetic
    <2> QED BY <1>1, <2>1, <2>2 DEF RingAt, StartAdvance
  <1>3. Filled \in 1..FifoSize /\ Filled' = Filled
    <2>1. Filled >= 1 /\ Filled \in 0..FifoSize
      BY <1>a, <1>b, TicketsBound DEF OccupyingPlaces
    <2>2. ~RWrap(r)
      BY <1>b DEF RWrap, Goto
    <2> QED BY <1>a, <2>1, <2>2, ReadTickets DEF ReadStep
  <1>4. /\ circleBuffer' = circleBuffer /\ start' = start
        /\ circleBuffer \in [0..Cap-1 -> Int]
    BY <1>a DEF RCopy, ring, TypeOK
  <1>5. /\ ~At("r_move") /\ ~At("r_wrap")
        /\ At("r_move")' /\ ~At("r_wrap")'
    BY <1>a, <1>b, Alone DEF CriticalPlaces
  <1>6. Head1 = SlotSz * s /\ Unread = Filled
    BY <1>2, <1>3, <1>4, <1>5, SlotArithmetic DEF Head1, Unread
  <1>7. Head1' = SlotSz * (s+1) /\ Unread' = Filled - 1
    BY <1>2, <1>3, <1>4, <1>5, SlotArithmetic DEF Head1, Unread
  <1>8. Waiting = Queue(circleBuffer, s, Filled)
    BY <1>3, <1>6, WaitingFromSlot, SizesAssumption
  <1>9. Waiting' = Queue(circleBuffer, s+1, Filled - 1)
    <2>1. s + 1 \in 0..FifoSize /\ Filled - 1 \in 0..FifoSize
          /\ (s + 1) + (Filled - 1) < 2 * FifoSize
      BY <1>3, SizesAssumption
    <2> QED BY <1>4, <1>7, <2>1, WaitingFromSlot
  <1>10. /\ Waiting # <<>>
         /\ Waiting' = Tail(Waiting)
         /\ Head(Waiting) = SlotAt(circleBuffer, s)
    <2>1. s \in Nat /\ Filled \in Nat /\ Filled >= 1 /\ Wrapped(s) = s
      BY <1>3, SizesAssumption DEF Wrapped
    <2> HIDE DEF Wrapped
    <2> QED BY <1>8, <1>9, <2>1, QueueTail, SMTT(30)
  <1>11. PICK words \in Deliveries(start + 1, CopyCount(r)) :
            buf' = [buf EXCEPT ![r] = words]
    BY DEF RCopy
  <1>12. /\ words \in Seq(Junk \cup {circleBuffer[i] : i \in 0..Cap-1})
         /\ Len(words) = CopyCount(r)
         /\ CopyCount(r) \in Nat
    <2>1. words \in [1..CopyCount(r) -> Junk \cup {circleBuffer[i] : i \in 0..Cap-1}]
      BY <1>11 DEF Deliveries
    <2>2. CopyCount(r) \in Nat
      BY <1>a, CopyCountType
    <2> QED BY <2>1, <2>2, TuplesAreSequences
  <1>13. ASSUME NEW i \in 1..ElemSz, i <= Len(words)
         PROVE  words[i] = SlotAt(circleBuffer, s)[i]
    <2>1. words[i] \in WordsAt(start + 1 + i - 1)
      BY <1>11, <1>12, <1>13, SizesAssumption DEF Deliveries
    <2>2. /\ SlotSz * s + i \in 0..Cap-1
          /\ SlotSz * s \in Nat
      BY WordsApart, SizesAssumption
    <2>3. start + 1 + i - 1 = SlotSz * s + i
      BY <1>2, <2>2
    <2>4. words[i] = circleBuffer[SlotSz * s + i]
      BY <2>1, <2>2, <2>3 DEF WordsAt
    <2> QED BY <2>4 DEF SlotAt
  <1>14. /\ buf'[r] = words
         /\ [x \in Readers |-> buf'[x]] =
              [[x \in Readers |-> buf[x]] EXCEPT ![r] = [x \in Readers |-> buf'[x]][r]]
         /\ [w \in Writers |-> buf'[w]] = [w \in Writers |-> buf[w]]
    BY <1>a, <1>11 DEF TypeOK
  <1>15. Fifo!Carries(Head(Waiting), [x \in Readers |-> buf'[x]][r])
    BY <1>10, <1>13, <1>14 DEF Fifo!Carries
  <1> QED BY <1>10, <1>14, <1>15 DEF Fifo!Get

(* Moving start past the element just read, one assignment at a time,      *)
(* changes nothing in the queue.                                           *)
LEMMA MoveKeepsWaiting ==
    ASSUME RingInv, NEW r \in Readers, RMove(r)
    PROVE  Waiting' = Waiting
  <1>a. r \in Procs /\ TypeOK /\ MutualExclusion
    BY DEF RingInv, Typed, Procs
  <1>b. Goto(r, "r_move", "r_wrap")
    BY DEF RMove
  <1>1. /\ At("r_move") /\ ~At("r_wrap")
        /\ ~At("r_move")' /\ At("r_wrap")'
    BY <1>a, <1>b, Alone DEF CriticalPlaces
  <1>2. Filled' = Filled
    <2>1. ~RWrap(r)
      BY <1>b DEF RWrap, Goto
    <2> QED BY <1>a, <2>1, ReadTickets DEF ReadStep
  <1>3. start' = start + SlotSz /\ circleBuffer' = circleBuffer
        /\ start \in Nat /\ SlotSz \in Nat
    BY <1>a, SizesPositive DEF RMove, TypeOK
  <1>4. Head1' = Head1
    BY <1>1, <1>3 DEF Head1
  <1>5. Unread' = Unread
    BY <1>1, <1>2 DEF Unread
  <1> QED BY <1>3, <1>4, <1>5 DEF Waiting, Unread1

(* Taking start back to the head of the block neither.                     *)
LEMMA WrapKeepsWaiting ==
    ASSUME RingInv, NEW r \in Readers, RWrap(r)
    PROVE  Waiting' = Waiting
  <1>a. r \in Procs /\ TypeOK /\ MutualExclusion
    BY DEF RingInv, Typed, Procs
  <1>b. Goto(r, "r_wrap", "r_up") /\ pc[r] = "r_wrap"
    BY DEF RWrap, Goto
  <1>1. PICK s \in 0..FifoSize-1, e \in 0..FifoSize-1 : RingAt(s, e)
    BY DEF RingInv, RingPosition
  <1>2. start = SlotSz * (s+1) /\ start \in Nat
    <2>1. HolderAt = "r_wrap"
      BY <1>a, <1>b, HolderIs DEF CriticalPlaces
    <2> QED BY <1>1, <1>a, <2>1, SlotArithmetic DEF RingAt, StartAdvance, TypeOK
  <1>3. Filled \in 1..FifoSize /\ Filled' = Filled - 1
    <2>1. Filled >= 1 /\ Filled \in 0..FifoSize
      BY <1>a, <1>b, TicketsBound DEF OccupyingPlaces
    <2> QED BY <1>a, <2>1, ReadTickets DEF ReadStep
  <1>4. circleBuffer' = circleBuffer /\ start' = IF start = Cap THEN 0 ELSE start
    BY DEF RWrap
  <1>5. /\ ~At("r_move") /\ At("r_wrap")
        /\ ~At("r_move")' /\ ~At("r_wrap")'
    BY <1>a, <1>b, Alone DEF CriticalPlaces
  <1>6. Head1 = start /\ Unread = Filled - 1
    BY <1>2, <1>3, <1>5 DEF Head1, Unread
  <1>7. Head1' = start' /\ Unread' = Filled - 1
    BY <1>2, <1>3, <1>4, <1>5 DEF Head1, Unread
  <1>8. CASE start # Cap
    BY <1>4, <1>6, <1>7, <1>8 DEF Waiting, Unread1
  <1>9. CASE start = Cap
    <2>1. s + 1 = FifoSize /\ SlotSz * 0 = 0
      BY <1>2, <1>9, SlotArithmetic
    <2>2. FifoSize \in 0..FifoSize /\ 0 \in 0..FifoSize /\ Filled - 1 \in 0..FifoSize
          /\ FifoSize + (Filled - 1) < 2 * FifoSize /\ 0 + (Filled - 1) < 2 * FifoSize
      BY <1>3, SizesAssumption
    <2>3. Waiting = Queue(circleBuffer, FifoSize, Filled - 1)
      BY <1>2, <1>6, <2>1, <2>2, WaitingFromSlot
    <2>4. Waiting' = Queue(circleBuffer', 0, Filled - 1)
      BY <1>4, <1>7, <1>9, <2>1, <2>2, WaitingFromSlot
    <2> QED BY <1>4, <2>2, <2>3, <2>4, QueueWraps
  <1> QED BY <1>8, <1>9

(* Every other step of a reader leaves what waits alone too.               *)
LEMMA ReadKeepsWaiting ==
    ASSUME RingInv, NEW r \in Readers,
           \/ RBegin(r) \/ RDown(r) \/ RDownSignal(r) \/ RLock(r) \/ RLockSignal(r)
           \/ RCopyFails(r) \/ RUp(r) \/ RGiveBack(r)
    PROVE  /\ Waiting' = Waiting
           /\ buf' = buf \/ buf' = [buf EXCEPT ![r] = <<>>]
  <1> USE DEF ring, locals, ReadEnds
  <1>a. r \in Procs /\ TypeOK
    BY DEF RingInv, Typed, Procs
  <1>b. circleBuffer' = circleBuffer /\ start' = start
    BY DEF RBegin, RDown, RDownSignal, RLock, RLockSignal, RCopyFails, RUp, RGiveBack
  <1>c. Filled' = Filled
    <2>1. pc[r] # "r_wrap"
      BY DEF RBegin, RDown, RDownSignal, RLock, RLockSignal, RCopyFails, RUp, RGiveBack, Goto
    <2> QED BY <1>a, <2>1, ReadTickets DEF ReadStep, ReadFault, RWrap, Goto
  <1>1. CASE RBegin(r)
    BY <1>a, <1>b, <1>c, <1>1, WaitingQuiet DEF RBegin
  <1>2. CASE RDown(r)
    BY <1>a, <1>b, <1>c, <1>2, WaitingQuiet DEF RDown
  <1>3. CASE RDownSignal(r)
    BY <1>a, <1>b, <1>c, <1>3, WaitingQuiet DEF RDownSignal
  <1>4. CASE RLock(r)
    BY <1>a, <1>b, <1>c, <1>4, WaitingQuiet DEF RLock
  <1>5. CASE RLockSignal(r)
    BY <1>a, <1>b, <1>c, <1>5, WaitingQuiet DEF RLockSignal
  <1>6. CASE RCopyFails(r)
    BY <1>a, <1>b, <1>c, <1>6, WaitingQuiet DEF RCopyFails
  <1>7. CASE RUp(r)
    BY <1>a, <1>b, <1>c, <1>7, WaitingQuiet DEF RUp
  <1>8. CASE RGiveBack(r)
    BY <1>a, <1>b, <1>c, <1>8, WaitingQuiet DEF RGiveBack
  <1> QED BY <1>1, <1>2, <1>3, <1>4, <1>5, <1>6, <1>7, <1>8

LEMMA ReadImplements ==
    ASSUME RingInv, NEW r \in Readers, RBegin(r) \/ ReadStep(r) \/ ReadFault(r)
    PROVE  [Fifo!Next]_(Fifo!fifoVars)
  <1>a. TypeOK
    BY DEF RingInv, Typed
  <1>1. CASE RCopy(r)
    BY <1>1, CopyGets DEF Fifo!Next
  <1>2. CASE RMove(r) \/ RWrap(r)
    <2>1. Waiting' = Waiting
      BY <1>2, MoveKeepsWaiting, WrapKeepsWaiting
    <2>2. buf' = buf
      BY <1>2 DEF RMove, RWrap, locals
    <2> QED BY <1>a, <2>1, <2>2, AskOrStutter
  <1>3. CASE \/ RBegin(r) \/ RDown(r) \/ RDownSignal(r) \/ RLock(r) \/ RLockSignal(r)
             \/ RCopyFails(r) \/ RUp(r) \/ RGiveBack(r)
    <2>1. /\ Waiting' = Waiting
          /\ buf' = buf \/ buf' = [buf EXCEPT ![r] = <<>>]
      BY <1>3, ReadKeepsWaiting
    <2> QED BY <1>a, <2>1, AskOrStutter
  <1> QED BY <1>1, <1>2, <1>3 DEF ReadStep, ReadFault
-----------------------------------------------------------------------------
(* Writers *)

(* Moving end over the last element, and back to the head of the block,    *)
(* puts the element filled at the end of the queue.                        *)
LEMMA WrapPuts ==
    ASSUME FInv, NEW w \in Writers, WWrap(w)
    PROVE  Fifo!Put(w)
  <1>a. w \in Procs /\ RingInv /\ TypeOK /\ MutualExclusion
    BY DEF FInv, RingInv, Typed, Procs
  <1>b. Goto(w, "w_wrap", "w_up") /\ pc[w] = "w_wrap"
    BY DEF WWrap, Goto
  <1>1. PICK s \in 0..FifoSize-1, e \in 0..FifoSize-1 : RingAt(s, e)
    BY <1>a DEF RingInv, RingPosition
  <1>2. start = SlotSz * s /\ end = SlotSz * e + SlotSz
        /\ (e = s + Filled \/ e = s + Filled - FifoSize)
    <2>1. HolderAt = "w_wrap"
      BY <1>a, <1>b, HolderIs DEF CriticalPlaces
    <2>2. SlotSz * s \in Nat
      BY SlotArithmetic
    <2> QED BY <1>1, <2>1, <2>2 DEF RingAt, StartAdvance, EndAdvance
  <1>3. Filled \in 0..FifoSize-1 /\ Filled' = Filled + 1
    <2>1. Filled < FifoSize /\ Filled \in 0..FifoSize
      BY <1>a, <1>b, TicketsBound DEF ReservingPlaces
    <2> QED BY <1>a, <2>1, WriteTickets, SizesAssumption DEF WriteStep
  <1>4. circleBuffer' = circleBuffer /\ start' = start /\ buf' = buf
    BY DEF WWrap, locals
  <1>5. /\ ~At("r_move") /\ ~At("r_wrap")
        /\ ~At("r_move")' /\ ~At("r_wrap")'
    BY <1>a, <1>b, Alone DEF CriticalPlaces
  <1>6. Head1 = SlotSz * s /\ Unread = Filled
    BY <1>2, <1>3, <1>5, SlotArithmetic DEF Head1, Unread
  <1>7. Head1' = SlotSz * s /\ Unread' = Filled + 1
    BY <1>2, <1>3, <1>4, <1>5, SlotArithmetic DEF Head1, Unread
  <1>8. /\ s \in 0..FifoSize /\ Filled \in 0..FifoSize /\ Filled + 1 \in 0..FifoSize
        /\ s + Filled < 2 * FifoSize /\ s + (Filled + 1) < 2 * FifoSize
    BY <1>3, SizesAssumption
  <1>9. Waiting = Queue(circleBuffer, s, Filled)
    BY <1>6, <1>8, WaitingFromSlot
  <1>10. Waiting' = Queue(circleBuffer, s, Filled + 1)
    BY <1>4, <1>7, <1>8, WaitingFromSlot
  <1> DEFINE element == SlotAt(circleBuffer, e)
  <1>11. /\ Len(Waiting) < FifoSize
         /\ Waiting' = Append(Waiting, element)
    <2>1. Wrapped(s + Filled) = e
      BY <1>2, <1>3, SizesAssumption DEF Wrapped
    <2>2. s \in Nat /\ Filled \in Nat
      BY <1>3, SizesAssumption
    <2> QED BY <1>3, <1>9, <1>10, <2>1, <2>2, QueueAppend, SizesAssumption
  <1>12. element \in Fifo!Elements
    BY DEF FInv, WordsKnown, Fifo!Elements, SlotAt
  <1>13. \A j \in 1..ElemSz : j <= Len(buf[w]) => element[j] = buf[w][j]
    <2> SUFFICES ASSUME NEW j \in 1..ElemSz, j <= Len(buf[w])
                 PROVE  element[j] = buf[w][j]
      OBVIOUS
    <2>1. circleBuffer[end - SlotSz + j] = buf[w][j]
      BY <1>b DEF FInv, MessageCopied
    <2>2. end - SlotSz + j = SlotSz * e + j
      BY <1>2, SlotArithmetic, SizesPositive, SizesAssumption
    <2> QED BY <2>1, <2>2 DEF SlotAt
  <1>14. Fifo!Carries(element, [v \in Writers |-> buf[v]][w])
    <2> HIDE DEF element
    <2> QED BY <1>13 DEF Fifo!Carries
  <1> HIDE DEF element
  <1> QED BY <1>4, <1>11, <1>12, <1>14 DEF Fifo!Put

(* A writer alone in the critical section stores the length of its element *)
(* where the next element begins, and its message behind it: in both cases *)
(* the words of every other element stay.                                  *)
LEMMA OtherWordsKept ==
    ASSUME FInv, NEW w \in Writers, WStore(w) \/ WCopy(w),
           NEW e \in 0..FifoSize-1, end = SlotSz * e + 1
    PROVE  \A k \in 0..FifoSize-1, j \in 1..ElemSz :
              k # e => circleBuffer'[SlotSz * k + j] = circleBuffer[SlotSz * k + j]
  <1> DEFINE mem == circleBuffer
  <1>1. mem \in [0..Cap-1 -> Int]
    BY DEF FInv, RingInv, Typed, TypeOK
  <1>2. CASE WStore(w)
    <2> DEFINE word == AtMostElem(count[w])
    <2>1. store_len[w] = SlotSz * e
      BY <1>2, SlotArithmetic DEF FInv, StoreSlot, WStore, Goto
    <2>2. circleBuffer' = StoreAt(mem, SlotSz * e, word)
      BY <1>2, <2>1 DEF WStore
    <2> HIDE DEF word, mem
    <2>3. \A k \in 0..FifoSize-1, j \in 1..ElemSz :
             StoreAt(mem, SlotSz * e, word)[SlotSz * k + j] = mem[SlotSz * k + j]
      BY <1>1, StoreKeepsWords, ZenonT(40)
    <2> QED BY <2>2, <2>3 DEF mem
  <1>3. CASE WCopy(w)
    <2> DEFINE n == AtMostElem(count[w])
               message == buf[w]
    <2>1. n \in 0..ElemSz
      BY AtMostElemType, SizesAssumption DEF FInv, RingInv, Typed, TypeOK, Procs
    <2>2. circleBuffer' = CopyIn(mem, SlotSz * e + 1, n, n, message)
      BY <1>3 DEF WCopy
    <2> HIDE DEF n, message, mem
    <2>3. ASSUME NEW k \in 0..FifoSize-1, NEW j \in 1..ElemSz, k # e
          PROVE  circleBuffer'[SlotSz * k + j] = circleBuffer[SlotSz * k + j]
      <3> DEFINE x == SlotSz * k + j
                 a == SlotSz * e + 1
      <3>1. x \in 0..Cap-1 /\ a \in Nat /\ n \in Nat /\ a + n - 1 = SlotSz * e + n
        <4>1. x \in 0..Cap-1
          BY WordsApart, SizesAssumption
        <4>2. SlotSz * e \in Nat
          BY SlotArithmetic
        <4> HIDE DEF x
        <4> QED BY <2>1, <4>1, <4>2, SizesAssumption
      <3>2. x \notin a .. a+n-1
        BY <2>1, <2>3, <3>1, CopyRange
      <3>3. circleBuffer' = CopyIn(mem, a, n, n, message)
        BY <2>2
      <3> HIDE DEF x, a
      <3>4. circleBuffer'[x] = mem[x]
        <4>1. mem \in [0..Cap-1 -> Int] /\ x \notin a+n .. a+n-1
          BY <1>1, <3>1
        <4> QED BY <3>1, <3>2, <3>3, <4>1 DEF CopyIn
      <3> QED BY <3>4 DEF x, mem
    <2> QED BY <2>3
  <1> QED BY <1>2, <1>3

(* As far as its message goes, the writer's own element gets its words.    *)
LEMMA OwnWordsCopied ==
    ASSUME FInv, NEW w \in Writers, WCopy(w),
           NEW e \in 0..FifoSize-1, end = SlotSz * e + 1, NEW j \in 1..ElemSz
    PROVE  /\ j <= Len(buf[w]) => circleBuffer'[SlotSz * e + j] = buf[w][j]
           /\ j > Len(buf[w]) => circleBuffer'[SlotSz * e + j] = circleBuffer[SlotSz * e + j]
  <1> DEFINE n == AtMostElem(count[w])
             message == buf[w]
             mem == circleBuffer
             x == SlotSz * e + j
  <1>1. mem \in [0..Cap-1 -> Int] /\ circleBuffer' = CopyIn(mem, end, n, n, message)
    BY DEF FInv, RingInv, Typed, TypeOK, WCopy
  <1>2. n \in 0..ElemSz /\ Len(message) = count[w] /\ count[w] \in Nat
    BY AtMostElemType, SizesAssumption
       DEF FInv, RingInv, Typed, TypeOK, MessageKept, Procs, WCopy, Goto, WriterPlaces
  <1>3. j <= n <=> j <= Len(message)
    BY <1>2, SizesAssumption DEF AtMostElem
  <1>4. x \in 0..Cap-1 /\ SlotSz * e \in Nat
    BY WordsApart, SizesAssumption
  <1> HIDE DEF n, message, mem
  <1>5. /\ x \in end .. end+n-1 <=> j <= n
        /\ x \notin end+n .. end+n-1
        /\ x - end + 1 = j
    <2> DEFINE b == SlotSz * e
    <2>1. b \in Nat /\ end = b + 1 /\ x = b + j /\ n \in Nat /\ j \in Nat /\ j >= 1
      BY <1>2, <1>4, SizesAssumption
    <2> HIDE DEF b, x
    <2> QED BY <2>1
  <1> HIDE DEF x
  <1>6. circleBuffer'[x] = IF j <= n THEN message[j] ELSE mem[x]
    BY <1>1, <1>4, <1>5 DEF CopyIn
  <1> QED BY <1>2, <1>3, <1>6 DEF x, message, mem

(* So the elements that wait keep theirs.                                  *)
LEMMA StoreKeepsWaiting ==
    ASSUME FInv, NEW w \in Writers, WStore(w) \/ WCopy(w)
    PROVE  Waiting' = Waiting
  <1>a. w \in Procs /\ RingInv /\ TypeOK /\ MutualExclusion
    BY DEF FInv, RingInv, Typed, Procs
  <1>b. /\ WStore(w) => Goto(w, "w_store", "w_copy") /\ pc[w] = "w_store"
        /\ WCopy(w) => Goto(w, "w_copy", "w_move") /\ pc[w] = "w_copy"
    BY DEF WStore, WCopy, Goto
  <1>1. PICK s \in 0..FifoSize-1, e \in 0..FifoSize-1 : RingAt(s, e)
    BY <1>a DEF RingInv, RingPosition
  <1>2. start = SlotSz * s /\ end = SlotSz * e + 1
        /\ (e = s + Filled \/ e = s + Filled - FifoSize)
    <2>1. HolderAt = pc[w]
      BY <1>a, <1>b, HolderIs DEF CriticalPlaces
    <2>2. SlotSz * s \in Nat
      BY SlotArithmetic
    <2> QED BY <1>b, <1>1, <2>1, <2>2 DEF RingAt, StartAdvance, EndAdvance
  <1>3. Filled \in 0..FifoSize-1 /\ Filled' = Filled
    <2>1. Filled < FifoSize /\ Filled \in 0..FifoSize
      BY <1>a, <1>b, TicketsBound DEF ReservingPlaces
    <2>2. ~WWrap(w)
      BY <1>b DEF WWrap, Goto
    <2> QED BY <1>a, <2>1, <2>2, WriteTickets, SizesAssumption DEF WriteStep
  <1>4. start' = start /\ circleBuffer \in [0..Cap-1 -> Int]
    BY <1>a DEF WStore, WCopy, TypeOK
  <1>5. /\ ~At("r_move") /\ ~At("r_wrap")
        /\ ~At("r_move")' /\ ~At("r_wrap")'
    <2>1. CASE WStore(w)
      BY <1>a, <1>b, <2>1, Alone DEF CriticalPlaces
    <2>2. CASE WCopy(w)
      BY <1>a, <1>b, <2>2, Alone DEF CriticalPlaces
    <2> QED BY <2>1, <2>2
  <1>6. Head1 = SlotSz * s /\ Unread = Filled
    BY <1>2, <1>3, <1>5, SlotArithmetic DEF Head1, Unread
  <1>7. Head1' = SlotSz * s /\ Unread' = Filled
    BY <1>2, <1>3, <1>4, <1>5, SlotArithmetic DEF Head1, Unread
  <1>8. s \in 0..FifoSize /\ Filled \in 0..FifoSize /\ s + Filled < 2 * FifoSize
    BY <1>3, SizesAssumption
  <1>9. /\ Waiting = Queue(circleBuffer, s, Filled)
        /\ Waiting' = Queue(circleBuffer', s, Filled)
    BY <1>6, <1>7, <1>8, WaitingFromSlot
  <1>10. ASSUME NEW i \in 1..Filled
         PROVE  Wrapped(s + i - 1) \in 0..FifoSize-1 /\ Wrapped(s + i - 1) # e
    <2>1. Filled \in Nat /\ i \in Int
      BY <1>3
    <2> QED BY <1>2, <1>3, <1>10, <2>1, SizesAssumption DEF Wrapped
  <1>11. \A k \in 0..FifoSize-1, j \in 1..ElemSz :
            k # e => circleBuffer'[SlotSz * k + j] = circleBuffer[SlotSz * k + j]
    BY <1>2, OtherWordsKept
  <1>12. \A i \in 1..Filled, j \in 1..ElemSz :
            LET x == SlotSz * Wrapped(s + i - 1) + j IN circleBuffer'[x] = circleBuffer[x]
    BY <1>10, <1>11
  <1> QED BY <1>9, <1>12, QueueSame

(* Every other step of a writer leaves what waits alone too.               *)
LEMMA WriteKeepsWaiting ==
    ASSUME RingInv, NEW w \in Writers,
           \/ WBegin(w) \/ WDown(w) \/ WDownSignal(w) \/ WLock(w) \/ WLockSignal(w)
           \/ WHeader(w) \/ WMove(w) \/ WUp(w) \/ WGiveBack(w)
    PROVE  /\ Waiting' = Waiting
           /\ buf' = buf \/ \E message : buf' = [buf EXCEPT ![w] = message]
  <1> USE DEF ring, locals, WriteEnds
  <1>a. w \in Procs /\ TypeOK
    BY DEF RingInv, Typed, Procs
  <1>b. circleBuffer' = circleBuffer /\ start' = start
    BY DEF WBegin, WDown, WDownSignal, WLock, WLockSignal, WHeader, WMove, WUp, WGiveBack
  <1>c. Filled' = Filled
    <2>1. pc[w] # "w_wrap"
      BY DEF WBegin, WDown, WDownSignal, WLock, WLockSignal, WHeader, WMove, WUp, WGiveBack,
             Goto
    <2> QED BY <1>a, <2>1, WriteTickets DEF WriteStep, WriteFault, WWrap, Goto
  <1>1. CASE WBegin(w)
    BY <1>a, <1>b, <1>c, <1>1, WaitingQuiet DEF WBegin
  <1>2. CASE WDown(w)
    BY <1>a, <1>b, <1>c, <1>2, WaitingQuiet DEF WDown
  <1>3. CASE WDownSignal(w)
    BY <1>a, <1>b, <1>c, <1>3, WaitingQuiet DEF WDownSignal
  <1>4. CASE WLock(w)
    BY <1>a, <1>b, <1>c, <1>4, WaitingQuiet DEF WLock
  <1>5. CASE WLockSignal(w)
    BY <1>a, <1>b, <1>c, <1>5, WaitingQuiet DEF WLockSignal
  <1>6. CASE WHeader(w)
    BY <1>a, <1>b, <1>c, <1>6, WaitingQuiet DEF WHeader
  <1>7. CASE WMove(w)
    BY <1>a, <1>b, <1>c, <1>7, WaitingQuiet DEF WMove
  <1>8. CASE WUp(w)
    BY <1>a, <1>b, <1>c, <1>8, WaitingQuiet DEF WUp
  <1>9. CASE WGiveBack(w)
    BY <1>a, <1>b, <1>c, <1>9, WaitingQuiet DEF WGiveBack
  <1> QED BY <1>1, <1>2, <1>3, <1>4, <1>5, <1>6, <1>7, <1>8, <1>9

LEMMA WriteImplements ==
    ASSUME ~WriteMayFail,
           FInv, NEW w \in Writers, WBegin(w) \/ WriteStep(w) \/ WriteFault(w)
    PROVE  [Fifo!Next]_(Fifo!fifoVars)
  <1>a. TypeOK /\ RingInv
    BY DEF FInv, RingInv, Typed
  <1>1. CASE WWrap(w)
    BY <1>1, WrapPuts DEF Fifo!Next
  <1>2. CASE WStore(w) \/ WCopy(w)
    <2>1. Waiting' = Waiting
      BY <1>2, StoreKeepsWaiting
    <2>2. buf' = buf
      BY <1>2 DEF WStore, WCopy, locals
    <2> QED BY <1>a, <2>1, <2>2, OfferOrStutter
  <1>3. CASE \/ WBegin(w) \/ WDown(w) \/ WDownSignal(w) \/ WLock(w) \/ WLockSignal(w)
             \/ WHeader(w) \/ WMove(w) \/ WUp(w) \/ WGiveBack(w)
    <2>1. /\ Waiting' = Waiting
          /\ buf' = buf \/ \E message : buf' = [buf EXCEPT ![w] = message]
      BY <1>a, <1>3, WriteKeepsWaiting
    <2> QED BY <1>a, <2>1, OfferOrStutter
  <1>4. ~WCopyFails(w)
    BY DEF WCopyFails
  <1> QED BY <1>1, <1>2, <1>3, <1>4 DEF WriteStep, WriteFault
-----------------------------------------------------------------------------
(* The invariant *)

LEMMA FInvInit == Init => FInv
  <1> SUFFICES ASSUME Init PROVE FInv
    OBVIOUS
  <1>1. RingInv
    BY RingInit
  <1>2. StoreSlot /\ MessageCopied
    BY DEF Init, StoreSlot, MessageCopied, Procs
  <1>3. WordsKnown
    <2>1. \A k \in 0..FifoSize-1, j \in 1..ElemSz : SlotSz * k + j \in 0..Cap-1
      BY WordsApart, SizesAssumption
    <2>2. \A w \in Writers : buf[w] \in Seq(Msgs)
      BY DEF Init, Procs
    <2> QED BY <2>1, <2>2 DEF Init, WordsKnown
  <1> QED BY <1>1, <1>2, <1>3 DEF FInv

(* Readers touch neither the words of the ring nor end nor a writer.       *)
LEMMA ReadSparesMessages ==
    ASSUME FInv, NEW r \in Readers, RBegin(r) \/ ReadStep(r) \/ ReadFault(r)
    PROVE  StoreSlot' /\ WordsKnown' /\ MessageCopied'
  <1>a. TypeOK /\ r \notin Writers /\ r \in Procs /\ Writers \subseteq Procs
    BY ProcsAssumption DEF FInv, RingInv, Typed, Procs
  <1>1. circleBuffer' = circleBuffer /\ end' = end /\ store_len' = store_len
    BY DEF ReadStep, ReadFault, RBegin, RDown, RDownSignal, RLock, RLockSignal, RCopy,
           RCopyFails, RMove, RWrap, RUp, RGiveBack, ring, locals, ReadEnds
  <1>2. \A w \in Writers : pc'[w] = pc[w]
    BY <1>a DEF ReadStep, ReadFault, RBegin, RDown, RDownSignal, RLock, RLockSignal, RCopy,
           RCopyFails, RMove, RWrap, RUp, RGiveBack, Goto, TypeOK
  <1>3. \A w \in Writers : buf'[w] = buf[w]
    BY <1>a DEF ReadStep, ReadFault, RBegin, RDown, RDownSignal, RLock, RLockSignal, RCopy,
           RCopyFails, RMove, RWrap, RUp, RGiveBack, locals, ReadEnds, TypeOK
  <1>4. StoreSlot'
    BY <1>1, <1>2 DEF FInv, StoreSlot
  <1>5. WordsKnown'
    BY <1>1, <1>3 DEF FInv, WordsKnown
  <1>6. MessageCopied'
    BY <1>1, <1>2, <1>3 DEF FInv, MessageCopied
  <1> QED BY <1>4, <1>5, <1>6

(* What a call of write puts into the ring: the length where no word is,   *)
(* and words of its message only.                                          *)
LEMMA WriteKnown ==
    ASSUME FInv, ~WriteMayFail,
           NEW w \in Writers, WBegin(w) \/ WriteStep(w) \/ WriteFault(w)
    PROVE  WordsKnown'
  <1>a. TypeOK /\ w \in Procs /\ Writers \subseteq Procs /\ MutualExclusion
    BY DEF FInv, RingInv, Typed, Procs
  <1>1. \A v \in Writers : buf'[v] \in Seq(Msgs)
    <2>1. \A v \in Writers : buf[v] \in Seq(Msgs)
      BY DEF FInv, WordsKnown
    <2>2. CASE buf' = buf
      BY <2>1, <2>2
    <2>3. CASE buf' = [buf EXCEPT ![w] = <<>>]
      BY <1>a, <2>1, <2>3 DEF TypeOK
    <2>4. CASE WBegin(w)
      <3>1. PICK n \in WriteCounts, m \in Msgs : buf' = [buf EXCEPT ![w] = [i \in 1..n |-> m]]
        BY <2>4 DEF WBegin
      <3> DEFINE message == [i \in 1..n |-> m]
      <3>2. message \in [1..n -> Msgs] /\ n \in Nat
        BY DataAssumption
      <3>3. buf' = [buf EXCEPT ![w] = message]
        BY <3>1
      <3> HIDE DEF message
      <3>4. message \in Seq(Msgs)
        BY <3>2, TuplesAreSequences
      <3> QED BY <1>a, <2>1, <3>3, <3>4 DEF TypeOK
    <2> QED BY <2>2, <2>3, <2>4
        DEF WriteStep, WriteFault, WDown, WDownSignal, WLock, WLockSignal, WHeader, WStore,
            WCopy, WCopyFails, WMove, WWrap, WUp, WGiveBack, locals, WriteEnds
  <1>2. ASSUME NEW k \in 0..FifoSize-1, NEW j \in 1..ElemSz
        PROVE  circleBuffer'[SlotSz * k + j] \in Msgs \cup Junk
    <2>1. circleBuffer[SlotSz * k + j] \in Msgs \cup Junk
      BY DEF FInv, WordsKnown
    <2>2. CASE circleBuffer' = circleBuffer
      BY <2>1, <2>2
    <2>3. CASE WStore(w) \/ WCopy(w)
      <3>1. PICK s \in 0..FifoSize-1, e \in 0..FifoSize-1 : RingAt(s, e)
        BY DEF FInv, RingInv, RingPosition
      <3>2. end = SlotSz * e + 1
        <4>1. pc[w] \in {"w_store", "w_copy"}
          BY <2>3 DEF WStore, WCopy, Goto
        <4>2. HolderAt = pc[w]
          BY <1>a, <4>1, HolderIs DEF CriticalPlaces
        <4> QED BY <3>1, <4>1, <4>2 DEF RingAt, EndAdvance
      <3>3. CASE k # e
        BY <2>1, <2>3, <3>2, <3>3, OtherWordsKept
      <3>4. CASE k = e /\ WStore(w)
        <4>1. store_len[w] = SlotSz * e
          BY <3>2, <3>4, SlotArithmetic DEF FInv, StoreSlot, WStore, Goto
        <4>2. SlotSz * k + j # store_len[w] /\ SlotSz * k + j \in 0..Cap-1
          BY <3>4, <4>1, SlotArithmetic, WordsApart, SizesAssumption
        <4> QED BY <1>a, <2>1, <3>4, <4>2 DEF WStore, StoreAt, TypeOK
      <3>5. CASE k = e /\ WCopy(w)
        <4>1. /\ j <= Len(buf[w]) => circleBuffer'[SlotSz * e + j] = buf[w][j]
              /\ j > Len(buf[w]) =>
                    circleBuffer'[SlotSz * e + j] = circleBuffer[SlotSz * e + j]
          BY <3>2, <3>5, OwnWordsCopied
        <4>2. buf[w] \in Seq(Msgs)
          BY DEF FInv, WordsKnown
        <4>3. j <= Len(buf[w]) => buf[w][j] \in Msgs
          BY <4>2
        <4>4. j <= Len(buf[w]) \/ j > Len(buf[w])
          BY <4>2
        <4> QED BY <2>1, <3>5, <4>1, <4>3, <4>4
      <3> QED BY <2>3, <3>3, <3>4, <3>5
    <2> QED BY <2>2, <2>3
        DEF WBegin, WriteStep, WriteFault, WDown, WDownSignal, WLock, WLockSignal, WHeader,
            WCopyFails, WMove, WWrap, WUp, WGiveBack, ring
  <1> QED BY <1>1, <1>2 DEF WordsKnown

(* The only writer keeps its pointer and its message through its steps.    *)
LEMMA WriteKeepsSlot ==
    ASSUME FInv, OneWriter, ~WriteMayFail,
           NEW w \in Writers, WBegin(w) \/ WriteStep(w) \/ WriteFault(w)
    PROVE  StoreSlot' /\ MessageCopied'
  <1>a. TypeOK /\ w \in Procs /\ MutualExclusion /\ end \in Nat
    BY DEF FInv, RingInv, Typed, Procs, TypeOK
  <1>b. \A v \in Writers : v = w
    BY DEF OneWriter
  <1>c. /\ pc[w] \in {"w_down", "w_lock", "w_header"} => store_len[w] = end
        /\ pc[w] = "w_store" => store_len[w] = end - 1
    BY DEF FInv, StoreSlot
  <1>d. SUFFICES
        /\ pc'[w] \in {"w_down", "w_lock", "w_header"} => store_len'[w] = end'
        /\ pc'[w] = "w_store" => store_len'[w] = end' - 1
        /\ pc'[w] \in {"w_move", "w_wrap"} =>
              \A j \in 1..ElemSz : j <= Len(buf'[w]) =>
                 /\ pc'[w] = "w_move" => circleBuffer'[end' - 1 + j] = buf'[w][j]
                 /\ pc'[w] = "w_wrap" => circleBuffer'[end' - SlotSz + j] = buf'[w][j]
    BY <1>b DEF StoreSlot, MessageCopied
  <1> USE DEF TypeOK, Goto, ring, locals, WriteEnds
  <1>1. CASE WBegin(w)
    <2>1. pc'[w] = "w_down" /\ store_len'[w] = end /\ end' = end
      BY <1>1, <1>a DEF WBegin
    <2> QED BY <2>1
  <1>2. CASE WDown(w) \/ WLock(w)
    <2>1. /\ pc[w] \in {"w_down", "w_lock"} /\ pc'[w] \in {"w_lock", "w_header"}
          /\ store_len' = store_len /\ end' = end
      BY <1>2, <1>a DEF WDown, WLock
    <2> QED BY <1>c, <2>1
  <1>3. CASE \/ WDownSignal(w) \/ WLockSignal(w) \/ WWrap(w) \/ WUp(w) \/ WGiveBack(w)
    <2>1. pc'[w] \in {"idle", "w_giveback", "w_up"}
      BY <1>3, <1>a DEF WDownSignal, WLockSignal, WWrap, WUp, WGiveBack
    <2> QED BY <2>1
  <1>4. CASE WHeader(w)
    <2>1. pc[w] = "w_header" /\ pc'[w] = "w_store" /\ store_len' = store_len /\ end' = end + 1
      BY <1>4, <1>a DEF WHeader
    <2> QED BY <1>a, <1>c, <2>1
  <1>5. CASE WStore(w)
    <2>1. pc'[w] = "w_copy"
      BY <1>5, <1>a DEF WStore
    <2> QED BY <2>1
  <1>6. CASE WCopy(w)
    <2>1. pc'[w] = "w_move" /\ end' = end /\ buf' = buf /\ pc[w] = "w_copy"
      BY <1>6, <1>a DEF WCopy
    <2>2. PICK s \in 0..FifoSize-1, e \in 0..FifoSize-1 : RingAt(s, e)
      BY DEF FInv, RingInv, RingPosition
    <2>3. end = SlotSz * e + 1
      <3>1. HolderAt = "w_copy"
        BY <1>a, <2>1, HolderIs DEF CriticalPlaces
      <3> QED BY <2>2, <3>1 DEF RingAt, EndAdvance
    <2>4. ASSUME NEW j \in 1..ElemSz, j <= Len(buf[w])
          PROVE  circleBuffer'[end - 1 + j] = buf[w][j]
      <3>1. circleBuffer'[SlotSz * e + j] = buf[w][j]
        BY <1>6, <2>3, <2>4, OwnWordsCopied
      <3>2. end - 1 + j = SlotSz * e + j
        BY <2>3, SlotArithmetic, SizesAssumption
      <3> QED BY <3>1, <3>2
    <2> QED BY <2>1, <2>4
  <1>7. CASE WMove(w)
    <2>1. /\ pc[w] = "w_move" /\ pc'[w] = "w_wrap"
          /\ end' = end + ElemSz /\ buf' = buf /\ circleBuffer' = circleBuffer
      BY <1>7, <1>a DEF WMove
    <2>2. ASSUME NEW j \in 1..ElemSz, j <= Len(buf[w])
          PROVE  circleBuffer[end' - SlotSz + j] = buf[w][j]
      <3>1. circleBuffer[end - 1 + j] = buf[w][j]
        BY <2>1, <2>2 DEF FInv, MessageCopied
      <3>2. end' - SlotSz + j = end - 1 + j
        BY <1>a, <2>1, SizesAssumption DEF SlotSz
      <3> QED BY <3>1, <3>2
    <2> QED BY <2>1, <2>2
  <1>8. ~WCopyFails(w)
    BY DEF WCopyFails
  <1> QED BY <1>1, <1>2, <1>3, <1>4, <1>5, <1>6, <1>7, <1>8 DEF WriteStep, WriteFault

LEMMA FInvStep ==
    ASSUME OneWriter, ~WriteMayFail
    PROVE  FInv /\ [Next]_vars => FInv'
  <1> SUFFICES ASSUME FInv, [Next]_vars PROVE FInv'
    OBVIOUS
  <1>1. RingInv'
    BY RingStep DEF FInv
  <1>2. ASSUME NEW r \in Readers, RBegin(r) \/ ReadStep(r) \/ ReadFault(r)
        PROVE  FInv'
    BY <1>1, <1>2, ReadSparesMessages DEF FInv
  <1>3. ASSUME NEW w \in Writers, WBegin(w) \/ WriteStep(w) \/ WriteFault(w)
        PROVE  FInv'
    BY <1>1, <1>3, WriteKnown, WriteKeepsSlot DEF FInv
  <1>4. CASE UNCHANGED vars
    BY <1>1, <1>4 DEF vars, FInv, StoreSlot, WordsKnown, MessageCopied
  <1> QED BY <1>2, <1>3, <1>4 DEF Next
-----------------------------------------------------------------------------
(* The refinement *)

LEMMA QueueStartsEmpty == Init => Fifo!Init
  <1> SUFFICES ASSUME Init PROVE Fifo!Init
    OBVIOUS
  <1>1. Holding(OccupyingPlaces) = {}
    BY DEF Init, Holding, OccupyingPlaces
  <1>2. Filled = 0
    BY <1>1, FS_EmptySet DEF Init, Filled
  <1>3. ~At("r_move") /\ ~At("r_wrap")
    BY DEF Init, At
  <1>4. Waiting = <<>>
    BY <1>2, <1>3 DEF Waiting, Unread
  <1>5. /\ [w \in Writers |-> buf[w]] = [w \in Writers |-> <<>>]
        /\ [r \in Readers |-> buf[r]] = [r \in Readers |-> <<>>]
    BY DEF Init, Procs
  <1> QED BY <1>4, <1>5 DEF Fifo!Init

LEMMA StepImplements ==
    ASSUME ~WriteMayFail
    PROVE  FInv /\ [Next]_vars => [Fifo!Next]_(Fifo!fifoVars)
  <1> SUFFICES ASSUME FInv, [Next]_vars PROVE [Fifo!Next]_(Fifo!fifoVars)
    OBVIOUS
  <1>1. CASE Next
    BY <1>1, ReadImplements, WriteImplements DEF Next, FInv
  <1>2. CASE UNCHANGED vars
    <2>1. Waiting' = Waiting
      BY <1>2 DEF vars, Waiting, Unread, Unread1, Head1, Filled, Holding, At
    <2>2. buf' = buf
      BY <1>2 DEF vars
    <2> QED BY <2>1, <2>2 DEF Fifo!fifoVars
  <1> QED BY <1>1, <1>2

(* With one writer at a time and good addresses in write, the ring is a    *)
(* bounded queue of elements: each is taken by one reader, in the order of *)
(* the writes, and what that reader is handed, which may be less than the  *)
(* element, is from its beginning; for any number of readers and any size  *)
(* of the ring and of its elements, whichever waits are interrupted and    *)
(* reads fail.                                                             *)
THEOREM FifoImplementsQueue ==
    ASSUME OneWriter, ~WriteMayFail
    PROVE  Spec => ImplementsFifo
  BY FInvInit, FInvStep, QueueStartsEmpty, StepImplements, PTL
     DEF Spec, ImplementsFifo, Fifo!Spec

=============================================================================
