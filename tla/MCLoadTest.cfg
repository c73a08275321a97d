CONSTANTS
  SeqN <- MCSeqN
  Limit <- MCLimit
  TxSize <- MCSize
  RxSize <- MCSize
  FifoSize = 1
  Byte <- MCByte
  Programs <- MCPrograms
  Readers <- MCReaders
  Pairs <- MCPairs
  Counts <- MCCounts
  Rates <- MCRates
  Loads <- MCLoads
  MaxSent = 3
  MaxErrors = 1
SPECIFICATION FairSpec
INVARIANTS SequencesWhole CompleteTest VerdictRight
PROPERTY TestEnds
CHECK_DEADLOCK FALSE
