SPECIFICATION SuiteSpec
CONSTANTS
  Parts = {"streams", "long", "window", "sync", "send"}
  MAXBITS = 15
  MAX_BITS = 15
  ENOUGH_LENS = 852
  ENOUGH_DISTS = 592
  BASE = 65521
  NMAX = 5552
  UNROLL = 16
  WORDBITS = 30
  BYTEBITS = 8
  CRCTERMS <- MCTerms
  Inputs <- PartInputs
  AvailIn <- PartAvailIn
  AvailOut <- PartAvailOut
  Flushes <- PartFlushes
  FAST_IN = 6
  FAST_OUT <- PartFastOut
  MaySync <- PartMaySync
  MayFail <- PartMayFail
  lit_bufsize = 150
  Chunks <- MCChunks
  MaxChunks = 2
  MaxMarks = 1
  Levels = {0, 1}
  FixedOnly = FALSE
  TooOld = {FALSE}
INVARIANTS
  StreamsDecoded
  BlocksAgree
