SPECIFICATION Spec
CONSTANTS
  NPTE = 2
  NKTAB = 1
  KERNBASE = 6
  INPUT_BUF = 13
  NFILE = 4
  NOFILE = 5
  PIPESIZE = 2
  MAXARGS = 3
  NPROC = 6
  SBRK = 1
  BUF = 2
  NBUF = 11
  Programs <- Binaries
  Sessions <- MixedSessions
  Lines <- ShortLines
INVARIANTS
  LinesAsEdited
  PagesExact
  FilesExact
  ParsedAsWritten
PROPERTY
  BackToPrompt
CHECK_DEADLOCK FALSE
