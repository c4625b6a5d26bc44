\* The session with the values errno and CyaSSL_get_error() really hold
\* after a successful call: a read of one side that stopped on a full FIFO
\* then reads whatever an earlier call left.
CONSTANTS
  BufferSize = 1
  MaxBytes = 2
  StaleErrno = {"EAGAIN", "OTHER"}
  StaleSslError = {"WANT_READ", "NONE"}
  PeerFailures = TRUE
  Renegotiation = TRUE
  SizeModulus <- MCSizeModulus
SPECIFICATION Spec
INVARIANT ClosedOnlyByPeer
