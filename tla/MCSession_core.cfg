\* The session when errno and CyaSSL_get_error() still hold the benign
\* values EAGAIN and WANT_READ after a read loop stops (see the stale_status
\* run for the other values),
\* with peer resets and TLS renegotiation.
CONSTANTS
  BufferSize = 1
  MaxBytes = 2
  StaleErrno = {"EAGAIN"}
  StaleSslError = {"WANT_READ"}
  PeerFailures = TRUE
  Renegotiation = TRUE
  SizeModulus <- MCSizeModulus
SPECIFICATION Spec
INVARIANT TypeOK
INVARIANT FromSslNeverStalls
PROPERTY DeliveryToDest
