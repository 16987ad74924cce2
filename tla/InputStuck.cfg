SPECIFICATION FairSpec
CONSTANTS
  MaxCalls = 1
  MaxMessages = 2
  MaxBreaks = 0
PROPERTIES ReceivedIsReturned
