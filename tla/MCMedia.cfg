SPECIFICATION FootageSpec
CONSTANTS
  Width = 16
  MaxMessages = 5
  MaxJump = 1
  Sizes = {1, 2, 3}
  MaxSentAUs = 3
  MaxAway = 2
  SeqWidth = 32
  TsWidth = 16
  MaxPackets = 8
  TsStep = 3
  Window = 3
  MaxLost = 1
  SegmentDur = 2
  PreRoll = 1
  AudioBatch = 2
  MaxUnits = 6
  Faults = {"create", "row", "write", "complete"}
  aacFrameSamples = 2
  AudioPerFragment = 2
  MaxPushed = 6
  BlockSize = 2
  Base = 2
  IVLen = 2
  PlainSize = 5
  Phrases = {"a", "b"}
  Savers = {s1, s2}
  MaxSaves = 2
INVARIANTS
  FootageTypeOK
  UnitsSound
  FilesSound
  PreRollReaches
  RowsCompleted
  MuxSound
  ArchiveReadable
CHECK_DEADLOCK FALSE
