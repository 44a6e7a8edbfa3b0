\* Sftp.cfg, with a channel that two requests fill: the finding on BufferedFile.read.
CONSTANTS
  Length = 2
  MaxRequest = 1
  Window = 2
  PipelineLimit = 1
  Entries = 3
  Batch = 2
  ReadAheads = 3
  Uses <- MCUses
  Sizes = {1, 2}
  MaxThreads = 2
  MayDrop = TRUE
SPECIFICATION Spec
INVARIANT ShortOnlyAtEnd
\* A program may stop calling.
CHECK_DEADLOCK FALSE
