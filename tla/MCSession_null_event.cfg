\* After a destination reset, TLS data makes on_read_ssl event_add a NULL event.
CONSTANTS
  BufferSize = 2
  MaxBytes = 2
  StaleErrno = {"EAGAIN"}
  StaleSslError = {"WANT_READ"}
  PeerFailures = TRUE
  Renegotiation = FALSE
  SizeModulus <- MCSizeModulus
SPECIFICATION Spec
INVARIANT NoNullEventAdd
