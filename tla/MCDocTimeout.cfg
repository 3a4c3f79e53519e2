SPECIFICATION FairSpec
CONSTANTS
  None = None
  FreeProvider = "ollama"
  Provider <- MCProvider
  Model <- MCModel
  Name <- MCName
  Usage <- MCUsage
  Rate <- MCRate
  Settings <- MCSettings
  Registered <- MCRegistered
  Timed <- MCTimed
  Request = {r1}
  Body <- MCBodySettle
  MaxDeltas = 1
PROPERTIES
  EveryRequestSettles
