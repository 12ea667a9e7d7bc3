\* Empty and two-byte blocks through a kernel buffer of one byte, so that a
\* Buffer is always cut; two connections of one object, so that the end of the
\* first meets the beginning of the second.
SPECIFICATION FairSpec
CONSTANTS
  Sizes = {0, 2}
  Space = 1
  MaxBytes = 4
  MaxQueue = 2
  MaxConns = 2
CHECK_DEADLOCK FALSE
INVARIANTS StreamInOrder NothingStranded OneCloseEach
PROPERTY Flushed
