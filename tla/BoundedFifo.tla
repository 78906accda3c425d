----------------------------- MODULE BoundedFifo -----------------------------
(***************************************************************************)
(* What the FIFO device promises to the processes that use it: a bounded   *)
(* queue of fixed-width elements.  A put appends one element that carries  *)
(* the message offered; a get takes the oldest element away and hands over *)
(* words of it, from the first one on.  No element is lost, taken twice,   *)
(* overtaken or changed while it waits.                                    *)
(*                                                                         *)
(* The promise says nothing of how many words a get hands over, which may  *)
(* be none: the driver takes that number from a length it read too early   *)
(* (see ScullFifo), and the words not handed over are gone with their      *)
(* element.                                                                *)
(***************************************************************************)
EXTENDS Integers, Sequences

CONSTANTS Readers, Writers,
          Capacity,     \* how many elements the queue holds
          Width,        \* how many words an element has
          Word          \* the words elements are made of

VARIABLES queue,        \* the elements in the order they were put
          offer,        \* the message each writer wants to put
          got           \* the words each reader was last handed

fifoVars == <<queue, offer, got>>

Elements == [1..Width -> Word]

(* The words two sequences have in common places within an element agree.  *)
Carries(element, message) ==
    \A i \in 1..Width : i <= Len(message) => element[i] = message[i]

Init == /\ queue = <<>>
        /\ offer = [w \in Writers |-> <<>>]
        /\ got = [r \in Readers |-> <<>>]

(* A process starts a call: a writer brings a message, a reader an empty   *)
(* buffer.                                                                 *)
Offer(w) == /\ offer' = [offer EXCEPT ![w] = offer'[w]]
            /\ UNCHANGED <<queue, got>>
Ask(r)   == /\ got' = [got EXCEPT ![r] = <<>>]
            /\ UNCHANGED <<queue, offer>>

Put(w) == /\ Len(queue) < Capacity
          /\ \E e \in Elements : /\ Carries(e, offer[w])
                                 /\ queue' = Append(queue, e)
          /\ UNCHANGED <<offer, got>>

Get(r) == /\ queue # <<>>
          /\ queue' = Tail(queue)
          /\ got' = [got EXCEPT ![r] = got'[r]]
          /\ Carries(Head(queue), got'[r])
          /\ UNCHANGED offer

Next == \/ \E w \in Writers : Offer(w) \/ Put(w)
        \/ \E r \in Readers : Ask(r) \/ Get(r)

Spec == Init /\ [][Next]_fifoVars
=============================================================================
