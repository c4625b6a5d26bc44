\* buffer_size 4 divides 2^3: the ring stays consistent across the wrap.
CONSTANTS
  BufferSize = 4
  Data <- MCData
  SizeModulus <- MCSizeModulus
SPECIFICATION Spec
INVARIANT TypeOK
PROPERTY RefinesByteQueue
