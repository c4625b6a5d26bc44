---------------------------- MODULE MCFifoBuffer ----------------------------
(***************************************************************************)
(* FifoBuffer with 3-bit counters, so that runs cross the counter wrap.   *)
(***************************************************************************)
EXTENDS FifoBuffer

MCSizeModulus == 8
MCData == {0, 1}

=============================================================================
