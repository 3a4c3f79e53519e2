SPECIFICATION FairSpec
CONSTANTS
  None = None
  FreeProvider = "ollama"
  Provider <- MCProvider
  Model <- MCModel
  Name <- MCName
  Usage <- MCUsages
  Rate <- MCRate
  Settings <- MCSettings
  Registered <- MCRegistered
  Timed <- MCTimed
  Request = {r1}
  Body <- MCBody
  MaxDeltas = 2
INVARIANTS
  TypeOK
  RecordedOnce
  NothingLostSilently
  StatusTellsTheTruth
  WalkedInOrder
  ChainAsAsked
  OneServer
  StreamWellFormed
  BilledAsServedAndTold
  NeverSilentlyFree
PROPERTIES
  CommittedOnReply
  Contract
  TimedRequestsSettle
