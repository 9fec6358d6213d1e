SPECIFICATION FairSpec
CONSTANTS
  NoLabel = NoLabel
  NoCall = NoCall
  Lower <- TheLower
  File <- TheFile
  Env <- TheEnv
  Frames <- TheFrames
  Content <- TheContent
  MaxBackoff = 8
  MaxUnread = 2
INVARIANTS TypeOK NoHammering
PROPERTIES ImplementsFeed Recovers Stops
CHECK_DEADLOCK FALSE
