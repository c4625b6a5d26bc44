------------------------------ MODULE ByteQueue ------------------------------
(***************************************************************************)
(* What a FIFO promises its single producer and single consumer: a queue  *)
(* of at most Capacity bytes.  The producer appends a chunk; the consumer *)
(* takes a chunk from the head, and "taken" is the chunk it last got.     *)
(***************************************************************************)
EXTENDS Naturals, Sequences

CONSTANTS Capacity, Data

VARIABLES queue, taken

Put == \E n \in 1 .. Capacity - Len(queue) :
         \E s \in [1 .. n -> Data] :
           /\ queue' = queue \o s
           /\ UNCHANGED taken

Get == \E n \in 1 .. Len(queue) :
         /\ taken' = SubSeq(queue, 1, n)
         /\ queue' = SubSeq(queue, n + 1, Len(queue))

Init == queue = <<>> /\ taken = <<>>

Spec == Init /\ [][Put \/ Get]_<<queue, taken>>

=============================================================================
