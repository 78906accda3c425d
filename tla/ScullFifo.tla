------------------------------ MODULE ScullFifo ------------------------------
(***************************************************************************)
(* The FIFO character device of src/rmiller-pa5/driver/scull.c.            *)
(*                                                                         *)
(* A ring of scull_fifo_size elements lives in one kmalloc'ed block.  An   *)
(* element is an int with the length of the message and scull_fifo_elemsz  *)
(* bytes of room for it.  Two counting semaphores say how many elements    *)
(* hold a message (FULL) and how many are free (EMPTY); mLock protects the *)
(* two pointers start and end.                                             *)
(*                                                                         *)
(* Memory is counted in words: an int is one word, a message of n words    *)
(* is the same word n times.  A pointer is its distance from circleBuffer. *)
(* Each step of a process reads or writes the shared variables once, in    *)
(* the order of the statements of scull_read and scull_write; the reads of *)
(* *start and end made before the semaphore is taken are steps of their    *)
(* own, as are the two assignments that move a pointer.                    *)
(***************************************************************************)
EXTENDS Integers, Sequences, FiniteSets

CONSTANTS
    Readers,        \* processes that call read(2) on the device
    Writers,        \* processes that call write(2)
    FifoSize,       \* scull_fifo_size, the number of elements
    ElemSz,         \* scull_fifo_elemsz, in words
    ReadCounts,     \* the counts readers ask for, in words
    WriteCounts,    \* the counts writers offer, in words
    Msgs,           \* the words messages are made of
    Junk,           \* words found in memory nobody has written
    Signals,        \* TRUE when a signal may interrupt a wait
    ReadMayFail,    \* TRUE when copy_to_user may fail
    WriteMayFail,   \* TRUE when copy_from_user may fail
    EndBound,       \* no write starts with end beyond this offset
    Nobody          \* the owner of a free mutex

Procs == Readers \cup Writers

ASSUME SizesAssumption == /\ FifoSize \in Nat \ {0}
                          /\ ElemSz \in Nat
ASSUME ProcsAssumption == /\ Readers \cap Writers = {}
                          /\ Nobody \notin Procs
                          /\ IsFiniteSet(Procs)
ASSUME DataAssumption  == /\ ReadCounts \subseteq Nat
                          /\ WriteCounts \subseteq Nat
                          /\ Msgs \subseteq Int
                          /\ Junk \subseteq Int
ASSUME FlagsAssumption == /\ Signals \in BOOLEAN
                          /\ ReadMayFail \in BOOLEAN
                          /\ WriteMayFail \in BOOLEAN

SlotSz == ElemSz + 1            \* sizeof(int) + scull_fifo_elemsz
Cap    == SlotSz * FifoSize     \* max_offset

(* Where a process can stand in a call; a place is named for what the      *)
(* process does next.                                                      *)
ReaderPlaces == {"r_down", "r_lock", "r_copy", "r_move", "r_wrap", "r_up",
                 "r_giveback"}
WriterPlaces == {"w_down", "w_lock", "w_header", "w_store", "w_copy", "w_move",
                 "w_wrap", "w_up", "w_giveback"}
CriticalPlaces  == {"r_copy", "r_move", "r_wrap",
                    "w_header", "w_store", "w_copy", "w_move", "w_wrap"}
OccupyingPlaces == {"r_lock", "r_copy", "r_move", "r_wrap", "r_giveback", "w_up"}
ReservingPlaces == {"w_lock", "w_header", "w_store", "w_copy", "w_move", "w_wrap",
                    "w_giveback", "r_up"}

VARIABLES
    circleBuffer,   \* the words of the block
    start,          \* where the next element is read
    end,            \* where the next element is written
    FULL, EMPTY,    \* the counts of the two semaphores
    mLock,          \* the owner of the mutex
    pc,             \* where each process stands in its call
    count,          \* the argument count of the call
    len,            \* scull_read: the length read before down
    store_len,      \* scull_write: the pointer kept before down
    buf,            \* the words in the user's buffer
    returned        \* the value returned by the last call

vars == <<circleBuffer, start, end, FULL, EMPTY, mLock, pc, count, len,
          store_len, buf, returned>>

ring == <<circleBuffer, start, end>>
locals == <<count, len, store_len, buf, returned>>

-----------------------------------------------------------------------------

(* The block as the hardware serves it: a read outside it finds any word,  *)
(* a write outside it changes nothing the driver ever reads.               *)
WordsAt(a) == IF a \in 0..Cap-1 THEN {circleBuffer[a]} ELSE Junk

StoreAt(mem, a, word) == [i \in DOMAIN mem |-> IF i = a THEN word ELSE mem[i]]

(* copy_from_user of the first n words of a message, of which k arrive:    *)
(* the kernel fills the rest of the destination with zeros.                *)
CopyIn(mem, a, n, k, message) ==
    [i \in DOMAIN mem |-> IF i \in a .. a+k-1 THEN message[i - a + 1]
                          ELSE IF i \in a+k .. a+n-1 THEN 0 ELSE mem[i]]

(* copy_to_user of n words from a.                                         *)
Deliveries(a, n) ==
    {s \in [1..n -> Junk \cup {circleBuffer[i] : i \in 0..Cap-1}] :
        \A i \in 1..n : s[i] \in WordsAt(a + i - 1)}

AtMostElem(n) == IF n > ElemSz THEN ElemSz ELSE n

(* How many words scull_read copies: count < len compares a size_t with an *)
(* int, so a negative len is larger than every count.                      *)
CopyCount(r) == IF len[r] < 0 \/ count[r] < len[r] THEN count[r] ELSE len[r]
CountIsLess(r) == len[r] < 0 \/ count[r] < len[r]

Goto(p, from, to) == pc[p] = from /\ pc' = [pc EXCEPT ![p] = to]
Return(p, value)  == returned' = [returned EXCEPT ![p] = value]

(* A call that ends takes its local variables and its buffer with it.      *)
ReadEnds(r)  == /\ count' = [count EXCEPT ![r] = 0]
                /\ len' = [len EXCEPT ![r] = 0]
                /\ buf' = [buf EXCEPT ![r] = <<>>]
                /\ UNCHANGED store_len
WriteEnds(w) == /\ count' = [count EXCEPT ![w] = 0]
                /\ store_len' = [store_len EXCEPT ![w] = 0]
                /\ buf' = [buf EXCEPT ![w] = <<>>]
                /\ UNCHANGED len

-----------------------------------------------------------------------------
(* scull_read *)

RBegin(r) ==
    /\ Goto(r, "idle", "r_down")
    /\ \E n \in ReadCounts : count' = [count EXCEPT ![r] = n]
    /\ \E w \in WordsAt(start) : len' = [len EXCEPT ![r] = w]
    /\ buf' = [buf EXCEPT ![r] = <<>>]
    /\ Return(r, 0)
    /\ UNCHANGED <<ring, FULL, EMPTY, mLock, store_len>>

(* Bug: the result of down_interruptible is ignored.                       *)
RDownIgnored(r) ==
    /\ Goto(r, "r_down", "r_lock")
    /\ FULL' = FULL - 1
    /\ UNCHANGED <<ring, EMPTY, mLock, locals>>

RDown(r) ==
    /\ Goto(r, "r_down", "r_lock")
    /\ FULL > 0
    /\ FULL' = FULL - 1
    /\ UNCHANGED <<ring, EMPTY, mLock, locals>>

RDownSignal(r) ==
    /\ Signals
    /\ Goto(r, "r_down", "idle")
    /\ Return(r, -1)
    /\ ReadEnds(r)
    /\ UNCHANGED <<ring, FULL, EMPTY, mLock>>

RLock(r) ==
    /\ Goto(r, "r_lock", "r_copy")
    /\ mLock = Nobody
    /\ mLock' = r
    /\ UNCHANGED <<ring, FULL, EMPTY, locals>>

(* Bug: an interrupted wait for the mutex goes on as if it had it.         *)
RLockIgnored(r) ==
    /\ Signals
    /\ Goto(r, "r_lock", "r_copy")
    /\ UNCHANGED <<ring, FULL, EMPTY, mLock, locals>>

RLockSignal(r) ==
    /\ Signals
    /\ Goto(r, "r_lock", "r_giveback")
    /\ UNCHANGED <<ring, FULL, EMPTY, mLock, locals>>

(* Bug: the copy to the user starts at the length, not after it.           *)
RCopyWithLength(r) ==
    /\ Goto(r, "r_copy", "r_move")
    /\ \E s \in Deliveries(start, CopyCount(r)) : buf' = [buf EXCEPT ![r] = s]
    /\ Return(r, IF CountIsLess(r) THEN count[r] ELSE ElemSz)
    /\ UNCHANGED <<ring, FULL, EMPTY, mLock, count, len, store_len>>

RCopy(r) ==
    /\ Goto(r, "r_copy", "r_move")
    /\ \E s \in Deliveries(start + 1, CopyCount(r)) : buf' = [buf EXCEPT ![r] = s]
    /\ Return(r, IF CountIsLess(r) THEN count[r] ELSE ElemSz)
    /\ UNCHANGED <<ring, FULL, EMPTY, mLock, count, len, store_len>>


RCopyFails(r) ==
    /\ ReadMayFail
    /\ CopyCount(r) > 0
    /\ Goto(r, "r_copy", "r_giveback")
    /\ mLock' = Nobody
    /\ UNCHANGED <<ring, FULL, EMPTY, locals>>

RMove(r) ==
    /\ Goto(r, "r_move", "r_wrap")
    /\ start' = start + SlotSz
    /\ UNCHANGED <<circleBuffer, end, FULL, EMPTY, mLock, locals>>

(* Bug: start is not taken back to the head of the block.                  *)
RWrapNever(r) ==
    /\ Goto(r, "r_wrap", "r_up")
    /\ mLock' = Nobody
    /\ UNCHANGED <<circleBuffer, start, end, FULL, EMPTY, locals>>

RWrap(r) ==
    /\ Goto(r, "r_wrap", "r_up")
    /\ start' = IF start = Cap THEN 0 ELSE start
    /\ mLock' = Nobody
    /\ UNCHANGED <<circleBuffer, end, FULL, EMPTY, locals>>

RUp(r) ==
    /\ Goto(r, "r_up", "idle")
    /\ EMPTY' = EMPTY + 1
    /\ ReadEnds(r)
    /\ UNCHANGED <<ring, FULL, mLock, returned>>


RGiveBack(r) ==
    /\ Goto(r, "r_giveback", "idle")
    /\ FULL' = FULL + 1
    /\ Return(r, -1)
    /\ ReadEnds(r)
    /\ UNCHANGED <<ring, EMPTY, mLock>>
-----------------------------------------------------------------------------
(* scull_write *)

WBegin(w) ==
    /\ end <= EndBound
    /\ Goto(w, "idle", "w_down")
    /\ \E n \in WriteCounts, m \in Msgs :
          /\ count' = [count EXCEPT ![w] = n]
          /\ buf' = [buf EXCEPT ![w] = [i \in 1..n |-> m]]
    /\ store_len' = [store_len EXCEPT ![w] = end]
    /\ Return(w, 0)
    /\ UNCHANGED <<ring, FULL, EMPTY, mLock, len>>

(* Bug: the result of down_interruptible is ignored.                       *)
WDownIgnored(w) ==
    /\ Goto(w, "w_down", "w_lock")
    /\ EMPTY' = EMPTY - 1
    /\ UNCHANGED <<ring, FULL, mLock, locals>>

WDown(w) ==
    /\ Goto(w, "w_down", "w_lock")
    /\ EMPTY > 0
    /\ EMPTY' = EMPTY - 1
    /\ UNCHANGED <<ring, FULL, mLock, locals>>

WDownSignal(w) ==
    /\ Signals
    /\ Goto(w, "w_down", "idle")
    /\ Return(w, -1)
    /\ WriteEnds(w)
    /\ UNCHANGED <<ring, FULL, EMPTY, mLock>>

WLock(w) ==
    /\ Goto(w, "w_lock", "w_header")
    /\ mLock = Nobody
    /\ mLock' = w
    /\ UNCHANGED <<ring, FULL, EMPTY, locals>>

WLockSignal(w) ==
    /\ Signals
    /\ Goto(w, "w_lock", "w_giveback")
    /\ UNCHANGED <<ring, FULL, EMPTY, mLock, locals>>

WHeader(w) ==
    /\ Goto(w, "w_header", "w_store")
    /\ end' = end + 1
    /\ UNCHANGED <<circleBuffer, start, FULL, EMPTY, mLock, locals>>

WStore(w) ==
    /\ Goto(w, "w_store", "w_copy")
    /\ circleBuffer' = StoreAt(circleBuffer, store_len[w], AtMostElem(count[w]))
    /\ UNCHANGED <<start, end, FULL, EMPTY, mLock, locals>>

WCopy(w) ==
    LET n == AtMostElem(count[w])
    IN  /\ Goto(w, "w_copy", "w_move")
        /\ circleBuffer' = CopyIn(circleBuffer, end, n, n, buf[w])
        /\ Return(w, n)
        /\ UNCHANGED <<start, end, FULL, EMPTY, mLock, count, len, store_len, buf>>

(* Bug: a failed copy returns without up(&EMPTY).                          *)
WCopyFailsKeepsTicket(w) ==
    /\ WriteMayFail
    /\ AtMostElem(count[w]) > 0
    /\ Goto(w, "w_copy", "idle")
    /\ mLock' = Nobody
    /\ Return(w, -1)
    /\ WriteEnds(w)
    /\ UNCHANGED <<ring, FULL, EMPTY>>

WCopyFails(w) ==
    LET n == AtMostElem(count[w])
    IN  /\ WriteMayFail
        /\ Goto(w, "w_copy", "w_giveback")
        /\ \E k \in 0..n-1 :
              circleBuffer' = CopyIn(circleBuffer, end, n, k, buf[w])
        /\ mLock' = Nobody
        /\ UNCHANGED <<start, end, FULL, EMPTY, locals>>

WMove(w) ==
    /\ Goto(w, "w_move", "w_wrap")
    /\ end' = end + ElemSz
    /\ UNCHANGED <<circleBuffer, start, FULL, EMPTY, mLock, locals>>

WWrap(w) ==
    /\ Goto(w, "w_wrap", "w_up")
    /\ end' = IF end = Cap THEN 0 ELSE end
    /\ mLock' = Nobody
    /\ UNCHANGED <<circleBuffer, start, FULL, EMPTY, locals>>

WUp(w) ==
    /\ Goto(w, "w_up", "idle")
    /\ FULL' = FULL + 1
    /\ WriteEnds(w)
    /\ UNCHANGED <<ring, EMPTY, mLock, returned>>

WGiveBack(w) ==
    /\ Goto(w, "w_giveback", "idle")
    /\ EMPTY' = EMPTY + 1
    /\ Return(w, -1)
    /\ WriteEnds(w)
    /\ UNCHANGED <<ring, FULL, mLock>>
-----------------------------------------------------------------------------

(* scull_init_module, once it has succeeded.                               *)
Init ==
    /\ circleBuffer \in [0..Cap-1 -> Junk]
    /\ start = 0
    /\ end = 0
    /\ FULL = 0
    /\ EMPTY = FifoSize
    /\ mLock = Nobody
    /\ pc = [p \in Procs |-> "idle"]
    /\ count = [p \in Procs |-> 0]
    /\ len = [r \in Readers |-> 0]
    /\ store_len = [w \in Writers |-> 0]
    /\ buf = [p \in Procs |-> <<>>]
    /\ returned = [p \in Procs |-> 0]

(* The steps a process takes once its call is under way, and those that a  *)
(* signal or a bad user address may cut short.                             *)
ReadStep(r)  == \/ RDown(r) \/ RLock(r) \/ RCopy(r) \/ RMove(r) \/ RWrap(r)
                \/ RUp(r) \/ RGiveBack(r)
WriteStep(w) == \/ WDown(w) \/ WLock(w) \/ WHeader(w) \/ WStore(w) \/ WCopy(w)
                \/ WMove(w) \/ WWrap(w) \/ WUp(w) \/ WGiveBack(w)
ReadFault(r)  == RDownSignal(r) \/ RLockSignal(r) \/ RCopyFails(r)
WriteFault(w) == WDownSignal(w) \/ WLockSignal(w) \/ WCopyFails(w)

Next == \/ \E r \in Readers : RBegin(r) \/ ReadStep(r) \/ ReadFault(r)
        \/ \E w \in Writers : WBegin(w) \/ WriteStep(w) \/ WriteFault(w)

Spec == Init /\ [][Next]_vars

-----------------------------------------------------------------------------
(* Properties *)

(* The type of every variable.                                             *)
TypeOK ==
    /\ circleBuffer \in [0..Cap-1 -> Int]
    /\ start \in Nat
    /\ end \in Nat
    /\ FULL \in Nat
    /\ EMPTY \in Nat
    /\ mLock \in Procs \cup {Nobody}
    /\ pc \in [Procs -> {"idle"} \cup ReaderPlaces \cup WriterPlaces]
    /\ \A r \in Readers : pc[r] \in {"idle"} \cup ReaderPlaces
    /\ \A w \in Writers : pc[w] \in {"idle"} \cup WriterPlaces
    /\ count \in [Procs -> Nat]
    /\ len \in [Readers -> Int]
    /\ store_len \in [Writers -> Nat]
    /\ buf \in [Procs -> Seq(Int)]
    /\ returned \in [Procs -> Int]

(* The processes between the down of one semaphore and the up of a         *)
(* semaphore: each holds one ticket, for an element with a message in it   *)
(* or for a free one.                                                      *)
Holding(places) == {p \in Procs : pc[p] \in places}
Filled == FULL  + Cardinality(Holding(OccupyingPlaces))
Free   == EMPTY + Cardinality(Holding(ReservingPlaces))

(* The mutex is held exactly by the process that stands between lock and   *)
(* unlock: no path of scull_read or scull_write leaves it locked and none  *)
(* touches start or end without it.                                        *)
MutualExclusion == \A p \in Procs : mLock = p <=> pc[p] \in CriticalPlaces

(* Every path through scull_read and scull_write, the interrupted and the  *)
(* failed ones too, ends with as many ups as downs on the right semaphore: *)
(* at every moment each of the FifoSize elements is either filled or free. *)
TicketConservation == Filled + Free = FifoSize

(* When nobody holds the mutex, start and end stand on element boundaries  *)
(* of the block and their distance is the number of filled elements: the   *)
(* pointers and the semaphores, updated under different protection, never  *)
(* disagree.                                                               *)
RingAgreement ==
    mLock = Nobody =>
        \E s, e \in 0..FifoSize-1 :
            /\ start = SlotSz * s
            /\ end = SlotSz * e
            /\ e = s + Filled \/ e = s + Filled - FifoSize

(* A writer about to copy its message does so inside the block, and into   *)
(* an element that holds no message waiting to be read.                    *)
CopyTargetsFree ==
    \A w \in Writers : pc[w] = "w_copy" =>
        /\ end + ElemSz <= Cap
        /\ \A i \in 0..Filled-1 : (start + SlotSz * i) % Cap # end - 1


-----------------------------------------------------------------------------
(* The device implements the bounded queue.  The queue holds the messages  *)
(* of the filled elements from start on; an element leaves it when its     *)
(* reader has copied it, and joins it when its writer has moved end past   *)
(* it.                                                                     *)
At(place) == \E p \in Procs : pc[p] = place
Unread == Filled - (IF At("r_move") \/ At("r_wrap") THEN 1 ELSE 0)
Head1  == start + (IF At("r_move") THEN SlotSz ELSE 0)
Unread1(i) == (Head1 + SlotSz * (i-1)) % Cap
Waiting == [i \in 1..Unread |-> [j \in 1..ElemSz |-> circleBuffer[Unread1(i) + j]]]

Fifo == INSTANCE BoundedFifo WITH
            Capacity <- FifoSize,
            Width <- ElemSz,
            Word <- Msgs \cup Junk \cup {0},
            queue <- Waiting,
            offer <- [w \in Writers |-> buf[w]],
            got <- [r \in Readers |-> buf[r]]

(* Elements are taken out in the order they were put in, each by one       *)
(* reader, and the words a reader is handed are the first of its own       *)
(* element, whatever the readers' interrupted or failed calls do.  How     *)
(* many words it is handed is not said: with the length read before down,  *)
(* the first reader of an empty FIFO takes an element and copies none of   *)
(* it.  One writer at a time, that is: see StoreSparesUnread.              *)
ImplementsFifo == Fifo!Spec

-----------------------------------------------------------------------------
(* What a comment of the driver says and the code does not do.             *)

(* "take an empty slot" (scull.c:138): the length a writer stores goes to   *)
(* the slot its ticket is for, never into a message that waits to be read.  *)
StoreSparesUnread ==
    [][\A w \in Writers : pc[w] = "w_store" /\ pc'[w] # "w_store"
                              => Waiting' = Waiting]_vars
=============================================================================
