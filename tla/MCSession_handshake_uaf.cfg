\* A client that leaves mid-handshake makes on_read_ssl read a freed client.
CONSTANTS
  BufferSize = 1
  MaxBytes = 2
  StaleErrno = {"EAGAIN"}
  StaleSslError = {"WANT_READ"}
  PeerFailures = FALSE
  Renegotiation = FALSE
  SizeModulus <- MCSizeModulus
SPECIFICATION Spec
INVARIANT NoUseAfterFree
