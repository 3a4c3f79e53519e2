SPECIFICATION Spec
CONSTANTS
  None = None
  FreeProvider = "ollama"
  Provider <- MCProvider
  Model <- MCModel
  Name <- MCName
  Usage <- MCUsage
  Rate <- MCRate
  Settings <- MCSettings
  Registered <- MCRegistered
  Timed <- MCTimed
  Request = {r1}
  Body <- MCBodyPair
  MaxDeltas = 1
INVARIANTS
  EveryAnswerRecorded
