-------------------------------- MODULE Fifo --------------------------------
(***************************************************************************)
(* src/src/fifo.c: a FIFO that owns no storage.  It counts the bytes      *)
(* written into and read out of a caller-owned ring buffer of             *)
(* buffer_size bytes, and hands out the index and length of the next      *)
(* contiguous chunk to read() or write() into.                            *)
(*                                                                         *)
(* read_count and write_count are size_t: every addition and subtraction  *)
(* on them wraps modulo SizeModulus (2^64 on the target).  A FIFO value   *)
(* is a record [buffer_size, read_count, write_count], as in fifo.h.      *)
(***************************************************************************)
EXTENDS Integers

CONSTANT SizeModulus   \* 2^64 for size_t; small in models that exercise wrap

ASSUME SizeModulus \in Nat \ {0}

MinOf(a, b) == IF a < b THEN a ELSE b

\* fifo_new(): calloc() zeroes both counters.
FifoNew(size) == [buffer_size |-> size, read_count |-> 0, write_count |-> 0]

\* fifo_read() / fifo_write(): commit byte_count bytes consumed / produced.
FifoRead(f, n)  == [f EXCEPT !.read_count = (@ + n) % SizeModulus]
FifoWrite(f, n) == [f EXCEPT !.write_count = (@ + n) % SizeModulus]

\* fifo_bytes_used() and fifo_bytes_free(), in size_t arithmetic.
FifoBytesUsed(f) == (f.write_count - f.read_count) % SizeModulus
FifoBytesFree(f) == (f.buffer_size - FifoBytesUsed(f)) % SizeModulus

\* Variant: the read position is taken one byte past the read count.
FifoReadIndexSkew(f) == (f.read_count + 1) % f.buffer_size

\* fifo_read_index() / fifo_write_index(): ring positions of the counters.
FifoReadIndex(f)  == f.read_count % f.buffer_size
FifoWriteIndex(f) == f.write_count % f.buffer_size

\* Variant: the room to the end of the array, not clipped to the free bytes.
FifoWriteSizeUnclipped(f) == f.buffer_size - FifoWriteIndex(f)

\* fifo_write_size(): room to the right of write_index, clipped to free.
FifoWriteSize(f) == MinOf(f.buffer_size - FifoWriteIndex(f), FifoBytesFree(f))

\* fifo_read_size(): bytes to the right of read_index, clipped to used.
FifoReadSize(f) == MinOf(f.buffer_size - FifoReadIndex(f), FifoBytesUsed(f))

=============================================================================
