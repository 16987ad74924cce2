SPECIFICATION FairSpec
CONSTANTS
  MaxCalls = 2
  MaxMessages = 3
  MaxBreaks = 1
INVARIANTS TypeOK TrueMeansExecuted NoneSkipped
PROPERTIES LinkSpec MainGoesOn BacklogMoves
