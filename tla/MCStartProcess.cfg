SPECIFICATION FairSpec
CONSTANTS
  Names <- MCNames
  MaxNames = 2
  MaxPrints = 4
  PipeSize = 2
  BufferSize = 3
INVARIANTS TypeOK ArgsFit NothingLeft OutputWhole ReplyTells
PROPERTY EveryStartEnds
