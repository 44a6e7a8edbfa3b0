\* Files of two bytes in chunks of one, two packets on their way per direction.
CONSTANTS
  Length = 2
  MaxRequest = 1
  Window = 2
  PipelineLimit = 1
  Entries = 3
  Batch = 2
  ReadAheads = 3
  Uses <- MCUses
  Sizes = {1, 2}
  MaxThreads = 2
  MayDrop = TRUE
SPECIFICATION FairSpec
INVARIANTS TransfersFaithful WritesKept
PROPERTY CallsReturn
\* A program may stop calling.
CHECK_DEADLOCK FALSE
