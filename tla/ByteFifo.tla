------------------------------ MODULE ByteFifo ------------------------------
(***************************************************************************)
(* What core/src/ring.c promises: a bounded first-in first-out queue of    *)
(* bytes between one producer and one consumer.  Ring implements it (see   *)
(* Ring!Refines).                                                          *)
(*                                                                         *)
(* fifo is what was accepted and not yet removed; out is what the          *)
(* consumer's current call has handed over so far.                         *)
(***************************************************************************)
EXTENDS Naturals, Sequences

CONSTANTS Byte,        \* the bytes that can be queued
          Terminator,  \* those that end a line
          Capacity     \* how many fit

VARIABLES fifo, out

vars == <<fifo, out>>

Init == fifo = <<>> /\ out = <<>>

\* A new call of the consumer starts with an empty result.
Start == out' = <<>> /\ UNCHANGED fifo

\* The producer's byte is accepted.  (A refused byte is a stutter.)
Put(b) == /\ Len(fifo) < Capacity
          /\ fifo' = Append(fifo, b)
          /\ UNCHANGED out

\* The oldest byte is handed over and leaves the queue.
Take == /\ fifo # <<>>
        /\ out' = Append(out, Head(fifo))
        /\ fifo' = Tail(fifo)

\* The next byte not yet looked at is copied out and stays in the queue.
Look == /\ Len(out) < Len(fifo)
        /\ out' = Append(out, fifo[Len(out) + 1])
        /\ UNCHANGED fifo

\* The oldest byte leaves unseen.
Drop == /\ fifo # <<>>
        /\ fifo' = Tail(fifo)
        /\ UNCHANGED out

\* The n oldest bytes leave and are what the caller gets.
Hand(n) == /\ n \in 0..Len(fifo)
           /\ out' = SubSeq(fifo, 1, n)
           /\ fifo' = SubSeq(fifo, n + 1, Len(fifo))

\* A line of n bytes is handed over; the t terminators behind it leave too.
Line(n, t) == /\ n + t <= Len(fifo)
              /\ \A i \in (n + 1)..(n + t) : fifo[i] \in Terminator
              /\ out' = SubSeq(fifo, 1, n)
              /\ fifo' = SubSeq(fifo, n + t + 1, Len(fifo))

Clear == fifo' = <<>> /\ UNCHANGED out

Next == \/ Start
        \/ \E b \in Byte : Put(b)
        \/ Take
        \/ Look
        \/ Drop
        \/ \E n \in 0..Capacity : Hand(n)
        \/ \E n \in 0..Capacity, t \in {1, 2} : Line(n, t)
        \/ Clear

Spec == Init /\ [][Next]_vars
=============================================================================
