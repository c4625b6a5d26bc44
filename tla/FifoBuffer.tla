----------------------------- MODULE FifoBuffer -----------------------------
(***************************************************************************)
(* A FIFO of fifo.c together with the byte array it indexes, used the way *)
(* tunnel_client.c uses from_ssl_fifo/from_ssl_buffer (and the from_dest *)
(* pair): the producer reads a chunk of at most fifo_write_size() bytes   *)
(* into &buffer[fifo_write_index()] and commits it with fifo_write(); the *)
(* consumer writes out at most fifo_read_size() bytes from                *)
(* &buffer[fifo_read_index()] and commits them with fifo_read().          *)
(*                                                                         *)
(* The counters are size_t and wrap modulo SizeModulus.  The module       *)
(* implements ByteQueue under the mapping Contents.                       *)
(***************************************************************************)
EXTENDS Integers, Sequences

CONSTANTS BufferSize, Data, SizeModulus

ASSUME BufferSize \in Nat \ {0} /\ 0 \in Data

INSTANCE Fifo

VARIABLES fifo, buffer, taken

vars == <<fifo, buffer, taken>>

\* What a read of buffer[i] yields past the end of the array.
OutOfBounds == -1

Slot(i) == IF i < BufferSize THEN buffer[i] ELSE OutOfBounds

TypeOK ==
  /\ fifo \in [buffer_size : {BufferSize}, read_count : 0 .. SizeModulus - 1,
               write_count : 0 .. SizeModulus - 1]
  /\ FifoBytesUsed(fifo) \in 0 .. BufferSize      \* spec 8: 0 <= used <= C
  /\ buffer \in [0 .. BufferSize - 1 -> Data]

\* calloc()ed buffer, fifo_new().
Init ==
  /\ fifo = FifoNew(BufferSize)
  /\ buffer = [i \in 0 .. BufferSize - 1 |-> 0]
  /\ taken = <<>>

\* One positive read() / CyaSSL_read() of the on_read_* loops.
Produce ==
  LET idx == FifoWriteIndex(fifo) IN
  \E n \in 1 .. FifoWriteSize(fifo) :
    \E s \in [1 .. n -> Data] :
      /\ buffer' = [i \in DOMAIN buffer |->
                      IF i - idx + 1 \in 1 .. n THEN s[i - idx + 1] ELSE buffer[i]]
      /\ fifo' = FifoWrite(fifo, n)
      /\ UNCHANGED taken

\* One positive write() / CyaSSL_write() of the on_write_* loops.
Consume ==
  LET idx == FifoReadIndex(fifo) IN
  \E n \in 1 .. FifoReadSize(fifo) :
    /\ taken' = [j \in 1 .. n |-> Slot(idx + j - 1)]
    /\ fifo' = FifoRead(fifo, n)
    /\ UNCHANGED buffer

Next == Produce \/ Consume

Spec == Init /\ [][Next]_vars /\ WF_vars(Consume)

\* The queue the counters and the array stand for: the used bytes, from
\* the ring position of each successive read count.
Contents ==
  [j \in 1 .. FifoBytesUsed(fifo) |->
     buffer[((fifo.read_count + j - 1) % SizeModulus) % BufferSize]]

Queue == INSTANCE ByteQueue WITH Capacity <- BufferSize, queue <- Contents

\* The FIFO and its array behave as a bounded byte queue: every chunk the
\* consumer writes out is the oldest bytes the producer put in, in order,
\* and the producer never puts in more than the room left -- including
\* across the wrap of the size_t counters.
RefinesByteQueue == Queue!Spec

=============================================================================
